---- MODULE Spec2Model ----
(***************************************************************************)
(* sled-web: a JSON-over-HTTP front end to a sled::Tree.                   *)
(*                                                                         *)
(* The model covers the server's dispatcher and handlers (response.rs),    *)
(* the request table (request.rs) and the client's response decoding       *)
(* (client.rs).  Bytes on the wire are modelled as sequences of one        *)
(* character strings; JSON text is really encoded and really parsed.       *)
(***************************************************************************)
EXTENDS Integers, Sequences, FiniteSets, TLC

(***************************************************************************)
(* Bounds of the model.                                                    *)
(***************************************************************************)
\* Largest number of JSON values concatenated into one decoder input.
MaxValues == 2
\* Largest fixed chunk size the decoder input is split into.
MaxChunk == 3

(***************************************************************************)
(* Sequences of bytes.                                                     *)
(***************************************************************************)
Take(s, n) == SubSeq(s, 1, IF n < Len(s) THEN n ELSE Len(s))

Drop(s, n) == SubSeq(s, (IF n < Len(s) THEN n ELSE Len(s)) + 1, Len(s))

RECURSIVE Flatten(_)
Flatten(ss) == IF ss = <<>> THEN <<>> ELSE Head(ss) \o Flatten(Tail(ss))

\* The body split into chunks of `size` bytes (the last one may be shorter).
RECURSIVE Chunks(_, _)
Chunks(s, size) ==
    IF s = <<>> THEN <<>>
    ELSE <<Take(s, size)>> \o Chunks(Drop(s, size), size)

(***************************************************************************)
(* JSON values (serde_json::Value).                                        *)
(*   <<"null">>  <<"num", n>>  <<"str", chars>>  <<"arr", values>>         *)
(*   <<"obj", <<  <<name, value>>, ... >> >>                               *)
(***************************************************************************)
JNull == <<"null">>
JNum(n) == <<"num", n>>
JStr(s) == <<"str", s>>
JArr(a) == <<"arr", a>>
JObj(o) == <<"obj", o>>

Kind(v) == v[1]

Digits == <<"0", "1", "2", "3", "4", "5", "6", "7", "8", "9">>

IsDigit(c) == \E i \in 1..Len(Digits) : Digits[i] = c

DigitVal(c) == (CHOOSE i \in 1..Len(Digits) : Digits[i] = c) - 1

\* A number written by its last digit only.
DecimalLastDigit(n) == <<Digits[(n % Len(Digits)) + 1]>>

RECURSIVE Decimal(_)
Decimal(n) ==
    IF n < Len(Digits) THEN <<Digits[n + 1]>>
    ELSE Decimal(n \div Len(Digits)) \o <<Digits[(n % Len(Digits)) + 1]>>

\* serde_json::to_vec: the compact encoding, no whitespace.
RECURSIVE EncodeJson(_), EncodeList(_), EncodeFields(_)
EncodeJson(v) ==
    CASE Kind(v) = "null" -> <<"n", "u", "l", "l">>
      [] Kind(v) = "num"  -> Decimal(v[2])
      [] Kind(v) = "str"  -> <<"\"">> \o v[2] \o <<"\"">>
      [] Kind(v) = "arr"  -> <<"[">> \o EncodeList(v[2]) \o <<"]">>
      [] Kind(v) = "obj"  -> <<"{">> \o EncodeFields(v[2]) \o <<"}">>

EncodeList(a) ==
    IF a = <<>> THEN <<>>
    ELSE IF Len(a) = 1 THEN EncodeJson(a[1])
    ELSE EncodeJson(a[1]) \o <<",">> \o EncodeList(Tail(a))

EncodeFields(o) ==
    IF o = <<>> THEN <<>>
    ELSE LET f == <<"\"">> \o o[1][1] \o <<"\"", ":">> \o EncodeJson(o[1][2])
         IN  IF Len(o) = 1 THEN f ELSE f \o <<",">> \o EncodeFields(Tail(o))

(***************************************************************************)
(* The JSON parser (serde_json's Deserializer over a byte slice).          *)
(* A parse result is [st, v, rest]: st = "ok" with the value and the       *)
(* unread bytes, st = "eof" when the input ended inside a value, and       *)
(* st = "syntax" when the input cannot be the start of any value.          *)
(***************************************************************************)
POk(v, rest) == [st |-> "ok", v |-> v, rest |-> rest]
PEof == [st |-> "eof", v |-> JNull, rest |-> <<>>]
PSyntax == [st |-> "syntax", v |-> JNull, rest |-> <<>>]

\* The digits at the front of s, read as a decimal number with value acc so far.
RECURSIVE ParseDigits(_, _)
ParseDigits(s, acc) ==
    IF s # <<>> /\ IsDigit(Head(s))
    THEN ParseDigits(Tail(s), acc * Len(Digits) + DigitVal(Head(s)))
    ELSE POk(JNum(acc), s)

ParseNumber(s) ==
    IF Head(s) = "0"
    THEN IF Len(s) > 1 /\ IsDigit(s[2]) THEN PSyntax ELSE POk(JNum(0), Tail(s))
    ELSE ParseDigits(s, 0)

\* The literal `null`, whose first byte has been seen.
ParseNull(s) ==
    LET lit == <<"n", "u", "l", "l">>
        n == IF Len(s) < Len(lit) THEN Len(s) ELSE Len(lit)
    IN  IF SubSeq(s, 1, n) # SubSeq(lit, 1, n) THEN PSyntax
        ELSE IF n < Len(lit) THEN PEof
        ELSE POk(JNull, Drop(s, Len(lit)))

\* The characters of a string up to its closing quote; s follows the opening quote.
RECURSIVE ParseChars(_, _)
ParseChars(s, acc) ==
    IF s = <<>> THEN PEof
    ELSE IF Head(s) = "\"" THEN POk(JStr(acc), Tail(s))
    ELSE ParseChars(Tail(s), Append(acc, Head(s)))

RECURSIVE ParseValue(_), ParseElems(_, _), ParseMembers(_, _)
ParseValue(s) ==
    IF s = <<>> THEN PEof
    ELSE CASE Head(s) = "n" -> ParseNull(s)
           [] IsDigit(Head(s)) -> ParseNumber(s)
           [] Head(s) = "\"" -> ParseChars(Tail(s), <<>>)
           [] Head(s) = "[" ->
                IF Len(s) = 1 THEN PEof
                ELSE IF s[2] = "]" THEN POk(JArr(<<>>), Drop(s, 2))
                ELSE ParseElems(Tail(s), <<>>)
           [] Head(s) = "{" ->
                IF Len(s) = 1 THEN PEof
                ELSE IF s[2] = "}" THEN POk(JObj(<<>>), Drop(s, 2))
                ELSE ParseMembers(Tail(s), <<>>)
           [] OTHER -> PSyntax

\* s is at an element of an array whose earlier elements are acc.
ParseElems(s, acc) ==
    LET r == ParseValue(s)
    IN  IF r.st # "ok" THEN r
        ELSE IF r.rest = <<>> THEN PEof
        ELSE IF Head(r.rest) = "]" THEN POk(JArr(Append(acc, r.v)), Tail(r.rest))
        ELSE IF Head(r.rest) = "," THEN ParseElems(Tail(r.rest), Append(acc, r.v))
        ELSE PSyntax

\* s is at a member name of an object whose earlier members are acc.
ParseMembers(s, acc) ==
    IF s = <<>> THEN PEof
    ELSE IF Head(s) # "\"" THEN PSyntax
    ELSE LET k == ParseChars(Tail(s), <<>>)
         IN  IF k.st # "ok" THEN k
             ELSE IF k.rest = <<>> THEN PEof
             ELSE IF Head(k.rest) # ":" THEN PSyntax
             ELSE LET r == ParseValue(Tail(k.rest))
                      m == Append(acc, <<k.v[2], r.v>>)
                  IN  IF r.st # "ok" THEN r
                      ELSE IF r.rest = <<>> THEN PEof
                      ELSE IF Head(r.rest) = "}" THEN POk(JObj(m), Tail(r.rest))
                      ELSE IF Head(r.rest) = "," THEN ParseMembers(Tail(r.rest), m)
                      ELSE PSyntax

\* serde_json::from_slice::<Value>: one value and nothing after it.
FromSlice(s) ==
    LET r == ParseValue(s)
    IN  IF r.st = "ok" /\ r.rest # <<>> THEN PSyntax ELSE r

(***************************************************************************)
(* Typed JSON: what serde derives for the types of the protocol.           *)
(***************************************************************************)
\* Option<T>: None is the empty sequence, Some(x) the sequence of x alone.
None == <<>>
Some(x) == <<x>>

\* A conversion result: ok with the typed value, or the failure.
Conv(v) == [ok |-> TRUE, val |-> v]
ConvErr == [ok |-> FALSE, val |-> <<>>]

\* Serialize for Vec<u8>, Option<Vec<u8>>, (Vec<u8>, Vec<u8>), its Option, and ().
JBytes(b) == JArr([i \in 1..Len(b) |-> JNum(b[i])])
JOptBytes(o) == IF o = None THEN JNull ELSE JBytes(o[1])
JEntry(e) == JArr(<<JBytes(e[1]), JBytes(e[2])>>)
JOptEntry(o) == IF o = None THEN JNull ELSE JEntry(o[1])
JUnit == JNull
JString(s) == JStr(s)
\* Result<(), Option<Vec<u8>>>: an externally tagged enum.
JCasResult(r) ==
    IF r.ok THEN JObj(<< <<(<<"O", "k">>), JUnit>> >>)
    ELSE JObj(<< <<(<<"E", "r", "r">>), JOptBytes(r.val)>> >>)

\* Deserialize for the same types, from a serde_json::Value.
AsBytes(v) ==
    IF Kind(v) = "arr" /\ \A i \in 1..Len(v[2]) : Kind(v[2][i]) = "num" /\ v[2][i][2] <= 255
    THEN Conv([i \in 1..Len(v[2]) |-> v[2][i][2]])
    ELSE ConvErr

AsOptBytes(v) ==
    IF Kind(v) = "null" THEN Conv(None)
    ELSE LET b == AsBytes(v) IN IF b.ok THEN Conv(Some(b.val)) ELSE ConvErr

AsEntry(v) ==
    IF Kind(v) = "arr" /\ Len(v[2]) = 2 /\ AsBytes(v[2][1]).ok /\ AsBytes(v[2][2]).ok
    THEN Conv(<<AsBytes(v[2][1]).val, AsBytes(v[2][2]).val>>)
    ELSE ConvErr

AsOptEntry(v) ==
    IF Kind(v) = "null" THEN Conv(None)
    ELSE LET e == AsEntry(v) IN IF e.ok THEN Conv(Some(e.val)) ELSE ConvErr

AsUnit(v) == IF Kind(v) = "null" THEN Conv(<<>>) ELSE ConvErr

AsString(v) == IF Kind(v) = "str" THEN Conv(v[2]) ELSE ConvErr

AsCasResult(v) ==
    IF Kind(v) = "obj" /\ Len(v[2]) = 1
    THEN LET name == v[2][1][1]
             inner == v[2][1][2]
         IN  IF name = <<"O", "k">> /\ AsUnit(inner).ok
                 THEN Conv([ok |-> TRUE, val |-> None])
             ELSE IF name = <<"E", "r", "r">> /\ AsOptBytes(inner).ok
                 THEN Conv([ok |-> FALSE, val |-> AsOptBytes(inner).val])
             ELSE ConvErr
    ELSE ConvErr

(***************************************************************************)
(* The store: a sled::Tree, an ordered map from keys to values.            *)
(***************************************************************************)
Keys == {<<1>>, <<1, 0>>, <<2>>}
Values == {<<>>, <<3>>}

\* The messages of the store's failures (Display of sled::Error).
StoreErrors == {<<"i", "o">>}

\* Ord for Vec<u8>: lexicographic over the bytes.
RECURSIVE KeyLess(_, _)
KeyLess(a, b) ==
    IF b = <<>> THEN FALSE
    ELSE IF a = <<>> THEN TRUE
    ELSE IF Head(a) # Head(b) THEN Head(a) < Head(b)
    ELSE KeyLess(Tail(a), Tail(b))

KeyLeq(a, b) == a = b \/ KeyLess(a, b)

MinKey(S) == CHOOSE k \in S : \A j \in S : KeyLeq(k, j)
MaxKey(S) == CHOOSE k \in S : \A j \in S : KeyLeq(j, k)

EmptyTree == [k \in {} |-> <<>>]

TreeGet(t, k) == IF k \in DOMAIN t THEN Some(t[k]) ELSE None
TreeSet(t, k, v) == [x \in (DOMAIN t) \cup {k} |-> IF x = k THEN v ELSE t[x]]
TreeDel(t, k) == [x \in (DOMAIN t) \ {k} |-> t[x]]

\* Tree::cas: swap when the current value is `old`; a None `new` deletes.
TreeCas(t, k, old, new) ==
    IF TreeGet(t, k) # old THEN [ok |-> FALSE, val |-> TreeGet(t, k), tree |-> t]
    ELSE [ok |-> TRUE, val |-> None,
          tree |-> IF new = None THEN TreeDel(t, k) ELSE TreeSet(t, k, new[1])]

\* Tree::merge with no merge operator configured: the new value replaces the old.
TreeMerge(t, k, v) == TreeSet(t, k, v)

\* sled::Iter: a position in the key order of the live tree.  The next
\* entry is the least one at or after lo (incl) or strictly after lo.
NewCursor(key) == [lo |-> key, incl |-> TRUE]

Ahead(t, cur) ==
    {k \in DOMAIN t : KeyLess(cur.lo, k) \/ (cur.incl /\ k = cur.lo)}

CursorNext(t, cur) ==
    IF Ahead(t, cur) = {} THEN [item |-> None, cur |-> cur]
    ELSE LET k == MinKey(Ahead(t, cur))
         IN  [item |-> Some(<<k, t[k]>>), cur |-> [lo |-> k, incl |-> FALSE]]

\* sled_search::max, pred and pred_incl.
SearchMax(t) ==
    IF DOMAIN t = {} THEN None
    ELSE Some(<<MaxKey(DOMAIN t), t[MaxKey(DOMAIN t)]>>)

SearchPred(t, key, incl) ==
    LET below == {k \in DOMAIN t : KeyLess(k, key) \/ (incl /\ k = key)}
    IN  IF below = {} THEN None ELSE Some(<<MaxKey(below), t[MaxKey(below)]>>)

(***************************************************************************)
(* The request types (request.rs) and the routing table.                   *)
(***************************************************************************)
NoArg == <<>>

Request(variant, key, value) ==
    [variant |-> variant, key |-> key, value |-> value,
     start |-> NoArg, end |-> NoArg, old |-> None, new |-> None]

GetReq(k) == Request("Get", k, NoArg)
DelReq(k) == Request("Del", k, NoArg)
SetReq(k, v) == Request("Set", k, v)
MergeReq(k, v) == Request("Merge", k, v)
CasReq(k, old, new) == [Request("Cas", k, NoArg) EXCEPT !.old = old, !.new = new]
FlushReq == Request("Flush", NoArg, NoArg)
IterReq == Request("Iter", NoArg, NoArg)
ScanReq(k) == Request("Scan", k, NoArg)
ScanRangeReq(s, e) == [Request("ScanRange", NoArg, NoArg) EXCEPT !.start = s, !.end = e]
MaxReq == Request("Max", NoArg, NoArg)
PredReq(k) == Request("Pred", k, NoArg)
PredInclReq(k) == Request("PredIncl", k, NoArg)
SuccReq(k) == Request("Succ", k, NoArg)
SuccInclReq(k) == Request("SuccIncl", k, NoArg)

\* RequestType: METHOD and PATH_AND_QUERY of every type, in the order of
\* the arms of `response`.
Routes ==
    << [variant |-> "Get",       method |-> "GET",    path |-> "/tree/entries/get"],
       [variant |-> "Del",       method |-> "DELETE", path |-> "/tree/entries/delete"],
       [variant |-> "Set",       method |-> "POST",   path |-> "/tree/entries/set"],
       [variant |-> "Cas",       method |-> "PUT",    path |-> "/tree/entries/cas"],
       [variant |-> "Merge",     method |-> "POST",   path |-> "/tree/entries/merge"],
       [variant |-> "Flush",     method |-> "POST",   path |-> "/tree/entries/flush"],
       [variant |-> "Iter",      method |-> "GET",    path |-> "/tree/entries/iter"],
       [variant |-> "Scan",      method |-> "GET",    path |-> "/tree/entries/scan"],
       [variant |-> "ScanRange", method |-> "GET",    path |-> "/tree/entries/scan_range"],
       [variant |-> "Max",       method |-> "GET",    path |-> "/tree/entries/max"],
       [variant |-> "Pred",      method |-> "GET",    path |-> "/tree/entries/pred"],
       [variant |-> "PredIncl",  method |-> "GET",    path |-> "/tree/entries/pred_incl"],
       [variant |-> "Succ",      method |-> "GET",    path |-> "/tree/entries/succ"],
       [variant |-> "SuccIncl",  method |-> "GET",    path |-> "/tree/entries/succ_incl"] >>

Variants == {Routes[i].variant : i \in 1..Len(Routes)}

RouteFor(variant) == Routes[CHOOSE i \in 1..Len(Routes) : Routes[i].variant = variant]

StreamVariants == {"Iter", "Scan", "ScanRange"}
UnitVariants == {"Iter", "Max", "Flush"}

\* The fields of each request struct, in declaration order.
Fields(variant) ==
    CASE variant \in UnitVariants -> <<>>
      [] variant \in {"Set", "Merge"} -> <<"key", "value">>
      [] variant = "ScanRange" -> <<"start", "end">>
      [] variant = "Cas" -> <<"key", "old", "new">>
      [] OTHER -> <<"key">>

OptionalField(f) == f \in {"old", "new"}

\* The bytes of a field name.
FieldName(f) ==
    CASE f = "key"   -> <<"k", "e", "y">>
      [] f = "value" -> <<"v", "a", "l", "u", "e">>
      [] f = "start" -> <<"s", "t", "a", "r", "t">>
      [] f = "end"   -> <<"e", "n", "d">>
      [] f = "old"   -> <<"o", "l", "d">>
      [] f = "new"   -> <<"n", "e", "w">>

FieldOf(rq, f) ==
    CASE f = "key"   -> rq.key
      [] f = "value" -> rq.value
      [] f = "start" -> rq.start
      [] f = "end"   -> rq.end
      [] f = "old"   -> rq.old
      [] f = "new"   -> rq.new

WithField(rq, f, x) ==
    CASE f = "key"   -> [rq EXCEPT !.key = x]
      [] f = "value" -> [rq EXCEPT !.value = x]
      [] f = "start" -> [rq EXCEPT !.start = x]
      [] f = "end"   -> [rq EXCEPT !.end = x]
      [] f = "old"   -> [rq EXCEPT !.old = x]
      [] f = "new"   -> [rq EXCEPT !.new = x]

\* IntoBody and Serialize: a unit struct is null, a struct an object of its fields.
RequestJson(rq) ==
    LET fs == Fields(rq.variant)
    IN  IF rq.variant \in UnitVariants THEN JNull
        ELSE JObj([i \in 1..Len(fs) |->
                    <<FieldName(fs[i]),
                      IF OptionalField(fs[i]) THEN JOptBytes(FieldOf(rq, fs[i]))
                      ELSE JBytes(FieldOf(rq, fs[i]))>>])

\* IntoRequest::into_request: the method and path of the type, the body as JSON.
IntoRequest(rq) ==
    [method |-> RouteFor(rq.variant).method,
     path   |-> RouteFor(rq.variant).path,
     body   |-> EncodeJson(RequestJson(rq))]

\* Deserialize for a field from its JSON value.
AsField(f, v) == IF OptionalField(f) THEN AsOptBytes(v) ELSE AsBytes(v)

\* Deserialize for a request struct from a JSON object: every field once
\* (an absent Option field is None), other members ignored.
RECURSIVE FromMembers(_, _, _)
FromMembers(rq, fs, o) ==
    IF fs = <<>> THEN Conv(rq)
    ELSE LET f == Head(fs)
             at == {i \in 1..Len(o) : o[i][1] = FieldName(f)}
         IN  IF Cardinality(at) > 1 THEN ConvErr
             ELSE IF at = {}
                 THEN IF OptionalField(f) THEN FromMembers(rq, Tail(fs), o) ELSE ConvErr
             ELSE LET x == AsField(f, o[CHOOSE i \in at : TRUE][2])
                  IN  IF x.ok THEN FromMembers(WithField(rq, f, x.val), Tail(fs), o)
                      ELSE ConvErr

\* ... and from a JSON array: the fields in declaration order, no more, no less.
RECURSIVE FromElems(_, _, _)
FromElems(rq, fs, a) ==
    IF fs = <<>> THEN Conv(rq)
    ELSE LET x == AsField(Head(fs), Head(a))
         IN  IF x.ok THEN FromElems(WithField(rq, Head(fs), x.val), Tail(fs), Tail(a))
             ELSE ConvErr

\* serde_json::from_slice::<T> for the request type T of a variant.
DecodeRequest(variant, bytes) ==
    LET r == FromSlice(bytes)
        blank == Request(variant, NoArg, NoArg)
    IN  IF r.st # "ok" THEN ConvErr
        ELSE IF variant \in UnitVariants
            THEN IF Kind(r.v) = "null" THEN Conv(blank) ELSE ConvErr
        ELSE IF Kind(r.v) = "obj" THEN FromMembers(blank, Fields(variant), r.v[2])
        ELSE IF Kind(r.v) = "arr" /\ Len(r.v[2]) = Len(Fields(variant))
            THEN FromElems(blank, Fields(variant), r.v[2])
        ELSE ConvErr

\* The match of `response` on (method, path): the variant of the first arm
\* that equals both, or no arm.
NoRoute == "none"

\* A match on the path alone, whatever the method.
RouteOfPath(method, path) ==
    LET hits == {i \in 1..Len(Routes) : Routes[i].path = path}
    IN  IF hits = {} THEN NoRoute
        ELSE Routes[CHOOSE i \in hits : \A j \in hits : i <= j].variant

RouteOf(method, path) ==
    LET hits == {i \in 1..Len(Routes) : Routes[i].method = method /\ Routes[i].path = path}
    IN  IF hits = {} THEN NoRoute
        ELSE Routes[CHOOSE i \in hits : \A j \in hits : i <= j].variant

(***************************************************************************)
(* State.                                                                  *)
(***************************************************************************)
VARIABLES
    tree,   \* the contents of the sled::Tree behind the Arc the server shares
    srv,    \* per connection, the request the server is handling and how far it is
    cursor, \* per connection, the Iter wrapper of a streaming response
    wire,   \* per connection, the response as written by the server
    call,   \* per connection, the client call in progress and its outcome
    owners, \* the holders of an Arc<sled::Tree> outside any request
    input,  \* the decoder input under test: its values, its bytes, its validity
    body,   \* per decoder, the chunks its hyper Body has still to yield
    dec     \* per decoder, the BodyToJsonChunks and what it returned last

vars == <<tree, srv, cursor, wire, call, owners, input, body, dec>>

serverVars == <<tree, srv, cursor, wire, call, owners>>

(***************************************************************************)
(* BodyToJsonChunks (client.rs).                                           *)
(***************************************************************************)
\* From<Body>: an empty buffer; nothing emitted, nothing returned yet.
NewDecoder == [buffer |-> <<>>, emitted |-> <<>>, ret |-> "new"]

\* What Body::poll hands to the decoder.
BodyChunk(c) == [kind |-> "chunk", chunk |-> c]
BodyEnd == [kind |-> "none", chunk |-> <<>>]
BodyErr == [kind |-> "err", chunk |-> <<>>]
BodyNotReady == [kind |-> "notready", chunk |-> <<>>]

\* A poll that returns NotReady when the buffer does not parse yet.
PollStepWaitsOnPartial(s, out) ==
    CASE out.kind = "err"      -> [s EXCEPT !.ret = "err"]
      [] out.kind = "notready" -> [s EXCEPT !.ret = "notready"]
      [] out.kind = "none"     -> [s EXCEPT !.ret = "none"]
      [] out.kind = "chunk"    ->
            LET buf == s.buffer \o out.chunk
                r == FromSlice(buf)
            IN  IF r.st # "ok"
                THEN [s EXCEPT !.buffer = buf, !.ret = "notready"]
                ELSE [buffer |-> <<>>,
                      emitted |-> Append(s.emitted, r.v),
                      ret |-> "item"]

\* A poll that emits the first value of the buffer and keeps what follows it.
PollStepEmitsPrefix(s, out) ==
    CASE out.kind = "err"      -> [s EXCEPT !.ret = "err"]
      [] out.kind = "notready" -> [s EXCEPT !.ret = "notready"]
      [] out.kind = "none"     -> [s EXCEPT !.ret = "none"]
      [] out.kind = "chunk"    ->
            LET buf == s.buffer \o out.chunk
                r == ParseValue(buf)
            IN  IF r.st # "ok"
                THEN [s EXCEPT !.buffer = buf, !.ret = "continue"]
                ELSE [buffer |-> r.rest,
                      emitted |-> Append(s.emitted, r.v),
                      ret |-> "item"]

\* A poll that emits the value and keeps its bytes in the buffer.
PollStepKeepsBuffer(s, out) ==
    CASE out.kind = "err"      -> [s EXCEPT !.ret = "err"]
      [] out.kind = "notready" -> [s EXCEPT !.ret = "notready"]
      [] out.kind = "none"     -> [s EXCEPT !.ret = "none"]
      [] out.kind = "chunk"    ->
            LET buf == s.buffer \o out.chunk
                r == FromSlice(buf)
            IN  IF r.st # "ok"
                THEN [s EXCEPT !.buffer = buf, !.ret = "continue"]
                ELSE [buffer |-> buf,
                      emitted |-> Append(s.emitted, r.v),
                      ret |-> "item"]

\* One turn of the loop of poll, given what body.poll() returned.  ret is
\* "continue" when the loop goes round again, else what poll returns.
PollStep(s, out) ==
    CASE out.kind = "err"      -> [s EXCEPT !.ret = "err"]
      [] out.kind = "notready" -> [s EXCEPT !.ret = "notready"]
      [] out.kind = "none"     -> [s EXCEPT !.ret = "none"]
      [] out.kind = "chunk"    ->
            LET buf == s.buffer \o out.chunk
                r == FromSlice(buf)
            IN  IF r.st # "ok"
                THEN [s EXCEPT !.buffer = buf, !.ret = "continue"]
                ELSE [buffer |-> <<>>,
                      emitted |-> Append(s.emitted, r.v),
                      ret |-> "item"]

\* The stream is over for its consumer once it ended or failed.
Finished(s) == s.ret \in {"none", "err"}

(***************************************************************************)
(* SpecDecoder: one input fed to decoders that differ only in chunk size.  *)
(***************************************************************************)
\* The JSON values decoder inputs are built from.
\* All of them are self-delimiting, as every body the server sends is.
DecoderValues ==
    << JNull, JStr(<<"e">>), JArr(<<>>), JArr(<<JNum(12)>>),
       JArr(<<JArr(<<JNum(2)>>), JArr(<<>>)>>),
       JObj(<< <<(<<"O", "k">>), JNull>> >>) >>

\* Bodies that are not the encoding of any sequence of values.
Malformed ==
    { <<"]">>, <<"[", ",", "1", "]">>, <<"[", "1", "]", "x">>, <<"[", "1", ",", "]">> }

\* Decoder d is fed chunks of d bytes; decoder Whole is fed one chunk.
Whole == MaxChunk + 1
Decoders == 1..Whole

ChunkSize(d, bytes) == IF d = Whole THEN Len(bytes) ELSE d

ValueSeqs == UNION {[1..n -> 1..Len(DecoderValues)] : n \in 1..MaxValues}

InputOf(ix) ==
    [values |-> [i \in 1..Len(ix) |-> DecoderValues[ix[i]]],
     bytes  |-> Flatten([i \in 1..Len(ix) |-> EncodeJson(DecoderValues[ix[i]])]),
     valid  |-> TRUE]

DecoderInit ==
    /\ \/ \E ix \in ValueSeqs : input = InputOf(ix)
       \/ \E m \in Malformed : input = [values |-> <<>>, bytes |-> m, valid |-> FALSE]
    /\ body = [d \in Decoders |-> Chunks(input.bytes, ChunkSize(d, input.bytes))]
    /\ dec = [d \in Decoders |-> NewDecoder]
    /\ tree = EmptyTree
    /\ srv = <<>> /\ cursor = <<>> /\ wire = <<>> /\ call = <<>> /\ owners = {}

\* The consumer polls decoder d; the decoders run one after the other.
DecoderPoll(d) ==
    /\ ~Finished(dec[d])
    /\ \A e \in Decoders : e < d => Finished(dec[e])
    /\ LET out == IF body[d] = <<>> THEN BodyEnd ELSE BodyChunk(Head(body[d]))
       IN  dec' = [dec EXCEPT ![d] = PollStep(dec[d], out)]
    /\ body' = [body EXCEPT ![d] = IF body[d] = <<>> THEN <<>> ELSE Tail(body[d])]
    /\ UNCHANGED <<input, serverVars>>

DecoderNext == \E d \in Decoders : DecoderPoll(d)

SpecDecoder == DecoderInit /\ [][DecoderNext]_vars

(***************************************************************************)
(* SpecPoll: the body may have nothing ready when it is polled.            *)
(* SpecPollFair: every chunk and the end of the body do arrive, and the    *)
(* task is polled again when they have: a poll that finds the body ready   *)
(* is not put off for ever.                                                *)
(***************************************************************************)
\* body.poll() returns NotReady: poll returns NotReady, nothing is consumed.
DecoderWait(d) ==
    /\ ~Finished(dec[d])
    /\ \A e \in Decoders : e < d => Finished(dec[e])
    /\ dec[d].ret # "notready"
    /\ dec' = [dec EXCEPT ![d] = PollStep(dec[d], BodyNotReady)]
    /\ UNCHANGED <<body, input, serverVars>>

PollNext == \E d \in Decoders : DecoderPoll(d) \/ DecoderWait(d)

\* Bodies of null, [12] and {"Ok":null}, and the malformed ones.
PollSeqs == UNION {[1..n -> {1, 4, 6}] : n \in 1..MaxValues}

PollInit ==
    /\ \/ \E ix \in PollSeqs : input = InputOf(ix)
       \/ \E m \in Malformed : input = [values |-> <<>>, bytes |-> m, valid |-> FALSE]
    /\ body = [d \in Decoders |-> Chunks(input.bytes, ChunkSize(d, input.bytes))]
    /\ dec = [d \in Decoders |-> NewDecoder]
    /\ tree = EmptyTree
    /\ srv = <<>> /\ cursor = <<>> /\ wire = <<>> /\ call = <<>> /\ owners = {}

SpecPoll == PollInit /\ [][PollNext]_vars

\* The decoders run one after the other: one of them is polled at a time.
SpecPollFair == SpecPoll /\ WF_vars(DecoderNext)

AllFinished == \A d \in Decoders : Finished(dec[d])

\* C1: a concatenation of encoded values decodes to the same sequence whether
\* it is fed in chunks of 1, 2 or 3 bytes or as one chunk.
ChunkBoundaryInvariance ==
    (input.valid /\ AllFinished) =>
        \A d, e \in Decoders : dec[d].emitted = dec[e].emitted

\* C2: a chunk holding several whole values yields each of them, in order.
WholeChunkEmitsEveryValue ==
    (input.valid /\ Finished(dec[Whole])) => dec[Whole].emitted = input.values

\* C3: a structurally invalid buffer makes the decoder report an error.
InvalidBufferIsAnError ==
    \A d \in Decoders :
        FromSlice(dec[d].buffer).st = "syntax" => dec[d].ret = "err"

(***************************************************************************)
(* The handlers: IntoResponse for every request type (response.rs).        *)
(* A handler gets the decoded request, the tree, and whether the store     *)
(* fails this operation (None, or Some of the failure's message); it       *)
(* returns the response and the tree the operation leaves.                 *)
(***************************************************************************)
StatusOk == 200
StatusCreated == 201
StatusBadRequest == 400
StatusInternalServerError == 500

\* The message of a serde_json error on a request body.
BadBody == <<"b", "a", "d">>

SingleResponse(status, json, t) ==
    [status |-> status, body |-> EncodeJson(json), tree |-> t,
     stream |-> FALSE, pos |-> NewCursor(<<>>)]

StreamResponse(pos, t) ==
    [status |-> StatusOk, body |-> <<>>, tree |-> t, stream |-> TRUE, pos |-> pos]

ErrToJsonBytes(msg) == JString(msg)

DbErrResponse(msg, t) ==
    SingleResponse(StatusInternalServerError, ErrToJsonBytes(msg), t)

\* A deserialization error answered as a store error would be: status 500.
DeserializationErrAsDbErr(msg, t) ==
    SingleResponse(StatusInternalServerError, ErrToJsonBytes(msg), t)

DeserializationErrResponse(msg, t) ==
    SingleResponse(StatusBadRequest, ErrToJsonBytes(msg), t)

\* A Get that reports an absent key as a failure.
GetResponseAbsentFails(rq, t, fail) ==
    IF fail # None THEN DbErrResponse(fail[1], t)
    ELSE IF TreeGet(t, rq.key) = None THEN DbErrResponse(<<"n", "o">>, t)
    ELSE SingleResponse(StatusOk, JOptBytes(TreeGet(t, rq.key)), t)

GetResponse(rq, t, fail) ==
    IF fail # None THEN DbErrResponse(fail[1], t)
    ELSE SingleResponse(StatusOk, JOptBytes(TreeGet(t, rq.key)), t)

\* A Del that answers the stored value and leaves it in the store.
DelResponseKeeps(rq, t, fail) ==
    IF fail # None THEN DbErrResponse(fail[1], t)
    ELSE SingleResponse(StatusOk, JOptBytes(TreeGet(t, rq.key)), t)

DelResponse(rq, t, fail) ==
    IF fail # None THEN DbErrResponse(fail[1], t)
    ELSE SingleResponse(StatusOk, JOptBytes(TreeGet(t, rq.key)), TreeDel(t, rq.key))

\* A Set that answers without storing.
SetResponseUnstored(rq, t, fail) ==
    IF fail # None THEN DbErrResponse(fail[1], t)
    ELSE SingleResponse(StatusCreated, JUnit, t)

SetResponse(rq, t, fail) ==
    IF fail # None THEN DbErrResponse(fail[1], t)
    ELSE SingleResponse(StatusCreated, JUnit, TreeSet(t, rq.key, rq.value))

\* A Cas that reports a failed comparison like any other store error.
CasResponseFailedIsError(rq, t, fail) ==
    IF fail # None THEN DbErrResponse(fail[1], t)
    ELSE LET r == TreeCas(t, rq.key, rq.old, rq.new)
         IN  IF r.ok THEN SingleResponse(StatusOk, JCasResult(r), r.tree)
             ELSE DbErrResponse(<<"c", "a", "s">>, t)

CasResponse(rq, t, fail) ==
    IF fail # None THEN DbErrResponse(fail[1], t)
    ELSE LET r == TreeCas(t, rq.key, rq.old, rq.new)
         IN  SingleResponse(StatusOk, JCasResult(r), r.tree)

\* A Merge answered like a read: status 200.
MergeResponseOk(rq, t, fail) ==
    IF fail # None THEN DbErrResponse(fail[1], t)
    ELSE SingleResponse(StatusOk, JUnit, TreeMerge(t, rq.key, rq.value))

MergeResponse(rq, t, fail) ==
    IF fail # None THEN DbErrResponse(fail[1], t)
    ELSE SingleResponse(StatusCreated, JUnit, TreeMerge(t, rq.key, rq.value))

FlushResponse(rq, t, fail) ==
    IF fail # None THEN DbErrResponse(fail[1], t)
    ELSE SingleResponse(StatusOk, JUnit, t)

MaxResponse(rq, t, fail) ==
    IF fail # None THEN DbErrResponse(fail[1], t)
    ELSE SingleResponse(StatusOk, JOptEntry(SearchMax(t)), t)

PredResponse(rq, t, fail) ==
    IF fail # None THEN DbErrResponse(fail[1], t)
    ELSE SingleResponse(StatusOk, JOptEntry(SearchPred(t, rq.key, FALSE)), t)

PredInclResponse(rq, t, fail) ==
    IF fail # None THEN DbErrResponse(fail[1], t)
    ELSE SingleResponse(StatusOk, JOptEntry(SearchPred(t, rq.key, TRUE)), t)

\* A Succ that scans from the key as given: the entry at the key comes first.
\* A Succ that leaves the key it looked up, with its 0 byte, in the store.
SuccResponseWritesKey(rq, t, fail) ==
    IF fail # None THEN DbErrResponse(fail[1], t)
    ELSE SingleResponse(StatusOk,
            JOptEntry(CursorNext(t, NewCursor(Append(rq.key, 0))).item),
            TreeSet(t, Append(rq.key, 0), <<>>))

SuccResponseFromKey(rq, t, fail) ==
    IF fail # None THEN DbErrResponse(fail[1], t)
    ELSE SingleResponse(StatusOk, JOptEntry(CursorNext(t, NewCursor(rq.key)).item), t)

\* Succ pushes a 0 byte onto the key and takes the first entry of the scan.
SuccResponse(rq, t, fail) ==
    IF fail # None THEN DbErrResponse(fail[1], t)
    ELSE SingleResponse(StatusOk,
            JOptEntry(CursorNext(t, NewCursor(Append(rq.key, 0))).item), t)

SuccInclResponse(rq, t, fail) ==
    IF fail # None THEN DbErrResponse(fail[1], t)
    ELSE SingleResponse(StatusOk, JOptEntry(CursorNext(t, NewCursor(rq.key)).item), t)

\* tree_iter and tree_scan: the position the wrapped sled::Iter starts at.
TreeIter == NewCursor(<<>>)
\* A scan that starts where an iteration of the whole store starts.
TreeScanFromStart(key) == NewCursor(<<>>)

TreeScan(key) == NewCursor(key)

IterResponse(rq, t) == StreamResponse(TreeIter, t)
ScanResponse(rq, t) == StreamResponse(TreeScan(rq.key), t)
ScanRangeResponse(rq, t) == StreamResponse(TreeScan(rq.start), t)

\* The closure each streaming handler maps over the entries the iterator
\* yields: Some chunk, or None when ScanRange's filter_map drops the entry.
\* A closure that filters: no chunk for an entry whose value is empty.
IterChunkSkipsEmpty(rq, e) ==
    IF e[2] = <<>> THEN None ELSE Some(EncodeJson(JEntry(e)))

IterChunk(rq, e) == Some(EncodeJson(JEntry(e)))
\* A closure that writes the key alone.
ScanChunkKeyOnly(rq, e) == Some(EncodeJson(JBytes(e[1])))

ScanChunk(rq, e) == Some(EncodeJson(JEntry(e)))
\* A closure that drops only keys beyond `end`, keeping the key equal to it.
ScanRangeChunkClosed(rq, e) ==
    IF KeyLess(rq.end, e[1]) THEN None ELSE Some(EncodeJson(JEntry(e)))

ScanRangeChunk(rq, e) ==
    IF KeyLeq(rq.end, e[1]) THEN None ELSE Some(EncodeJson(JEntry(e)))

EntryChunk(rq, e) ==
    CASE rq.variant = "Iter" -> IterChunk(rq, e)
      [] rq.variant = "Scan" -> ScanChunk(rq, e)
      [] rq.variant = "ScanRange" -> ScanRangeChunk(rq, e)

IntoResponse(rq, t, fail) ==
    CASE rq.variant = "Get"       -> GetResponse(rq, t, fail)
      [] rq.variant = "Del"       -> DelResponse(rq, t, fail)
      [] rq.variant = "Set"       -> SetResponse(rq, t, fail)
      [] rq.variant = "Cas"       -> CasResponse(rq, t, fail)
      [] rq.variant = "Merge"     -> MergeResponse(rq, t, fail)
      [] rq.variant = "Flush"     -> FlushResponse(rq, t, fail)
      [] rq.variant = "Iter"      -> IterResponse(rq, t)
      [] rq.variant = "Scan"      -> ScanResponse(rq, t)
      [] rq.variant = "ScanRange" -> ScanRangeResponse(rq, t)
      [] rq.variant = "Max"       -> MaxResponse(rq, t, fail)
      [] rq.variant = "Pred"      -> PredResponse(rq, t, fail)
      [] rq.variant = "PredIncl"  -> PredInclResponse(rq, t, fail)
      [] rq.variant = "Succ"      -> SuccResponse(rq, t, fail)
      [] rq.variant = "SuccIncl"  -> SuccInclResponse(rq, t, fail)

\* deserialize_and_respond::<T>.
DeserializeAndRespond(variant, bytes, t, fail) ==
    LET d == DecodeRequest(variant, bytes)
    IN  IF d.ok THEN IntoResponse(d.val, t, fail)
        ELSE DeserializationErrResponse(BadBody, t)

(***************************************************************************)
(* The client's decoding of a response (client.rs).                        *)
(***************************************************************************)
\* The Item type of each Client method.
ResultType(variant) ==
    CASE variant \in {"Get", "Del"} -> "optbytes"
      [] variant \in {"Set", "Merge", "Flush"} -> "unit"
      [] variant = "Cas" -> "cas"
      [] variant \in StreamVariants -> "entry"
      [] OTHER -> "optentry"

\* serde_json::from_value::<T>.
FromValue(type, v) ==
    CASE type = "optbytes" -> AsOptBytes(v)
      [] type = "unit"     -> AsUnit(v)
      [] type = "cas"      -> AsCasResult(v)
      [] type = "entry"    -> AsEntry(v)
      [] type = "optentry" -> AsOptEntry(v)
      [] type = "string"   -> AsString(v)

\* The outcome of a call: pending, Ok(val), or one of the Error variants;
\* "panic" is the unreachable!() of concat_and_deserialize, "end" the end
\* of a stream.
Outcome(tag, val) == [tag |-> tag, val |-> val]
Pending == Outcome("pending", <<>>)

\* The closure concat_and_deserialize maps over the first JSON value.
\* A closure that decodes every body as the result type, whatever the status.
SingleResultAnyStatus(type, status, v) ==
    IF FromValue(type, v).ok
    THEN Outcome("ok", FromValue(type, v).val)
    ELSE Outcome("serde", <<>>)

SingleResult(type, status, v) ==
    IF status = StatusInternalServerError
    THEN IF FromValue("string", v).ok
         THEN Outcome("server", FromValue("string", v).val)
         ELSE Outcome("serde", <<>>)
    ELSE IF FromValue(type, v).ok
         THEN Outcome("ok", FromValue(type, v).val)
         ELSE Outcome("serde", <<>>)

\* concat_and_deserialize, given what the decoder's poll just returned.
ConcatAndDeserialize(cl, d) ==
    CASE d.ret = "item" ->
            [cl EXCEPT !.state = "done",
                       !.result = SingleResult(ResultType(cl.rq.variant), cl.status,
                                               d.emitted[Len(d.emitted)])]
      [] d.ret = "none" -> [cl EXCEPT !.state = "done", !.result = Outcome("panic", <<>>)]
      [] d.ret = "err"  -> [cl EXCEPT !.state = "done", !.result = Outcome("hyper", <<>>)]
      [] OTHER -> cl

\* A stream that takes an error of the body for its end.
StreamErrIsEnd(cl, d) ==
    CASE d.ret = "item" ->
            LET e == FromValue(ResultType(cl.rq.variant), d.emitted[Len(d.emitted)])
            IN  IF e.ok THEN [cl EXCEPT !.items = Append(@, e.val)]
                ELSE [cl EXCEPT !.state = "done", !.result = Outcome("serde", <<>>)]
      [] d.ret \in {"none", "err"} ->
            [cl EXCEPT !.state = "done", !.result = Outcome("end", <<>>)]
      [] OTHER -> cl

\* stream_and_deserialize, given what the decoder's poll just returned.
StreamAndDeserialize(cl, d) ==
    CASE d.ret = "item" ->
            LET e == FromValue(ResultType(cl.rq.variant), d.emitted[Len(d.emitted)])
            IN  IF e.ok THEN [cl EXCEPT !.items = Append(@, e.val)]
                ELSE [cl EXCEPT !.state = "done", !.result = Outcome("serde", <<>>)]
      [] d.ret = "none" -> [cl EXCEPT !.state = "done", !.result = Outcome("end", <<>>)]
      [] d.ret = "err"  -> [cl EXCEPT !.state = "done", !.result = Outcome("hyper", <<>>)]
      [] OTHER -> cl

(***************************************************************************)
(* Spec: a client and the server over one connection.                      *)
(***************************************************************************)
Conns == {"c1"}

NoRequest == Request(NoRoute, NoArg, NoArg)

IdleServer ==
    [pc |-> "idle", method |-> "", path |-> "", body |-> <<>>,
     variant |-> NoRoute, rq |-> NoRequest, decoded |-> FALSE, failed |-> None]

\* No Iter wrapper: neither field exists.  `held` is the `_tree` field (a
\* counted reference), `live` the `iter` field (the sled::Iter at `pos`);
\* `pulled` lists the keys the last wrapper got from its sled::Iter.
NoCursor == [live |-> FALSE, held |-> FALSE, pos |-> NewCursor(<<>>), pulled |-> <<>>]

\* A wrapper that only borrows: no clone of the Arc is stored in it.
NewIterBorrowed(pos) == [live |-> TRUE, held |-> FALSE, pos |-> pos, pulled |-> <<>>]

\* tree_iter / tree_scan: `Iter { _tree, iter }`, a clone of the Arc next to
\* the sled::Iter; the Arc passed in is dropped when the function returns.
NewIter(pos) == [live |-> TRUE, held |-> TRUE, pos |-> pos, pulled |-> <<>>]

\* The fields of the wrapper in the order Rust drops them: declaration order.
DropOrder == <<"_tree", "iter">>

\* The service that dispatches the requests holds one Arc.
Service == {"service"}

\* Nothing written: no head, no body byte.  `sent` lists the chunks written
\* so far, `bytes` those of them the client's Body has not read yet.
NoResponse ==
    [head |-> FALSE, status |-> 0, bytes |-> <<>>, sent |-> <<>>, end |-> "open"]

IdleCall ==
    [state |-> "idle", rq |-> NoRequest, status |-> 0, items |-> <<>>,
     result |-> Pending]

NoInput == [values |-> <<>>, bytes |-> <<>>, valid |-> TRUE]

Init ==
    /\ tree = EmptyTree
    /\ srv = [c \in Conns |-> IdleServer]
    /\ cursor = [c \in Conns |-> NoCursor]
    /\ wire = [c \in Conns |-> NoResponse]
    /\ call = [c \in Conns |-> IdleCall]
    /\ owners = Service
    /\ dec = [c \in Conns |-> NewDecoder]
    /\ input = NoInput
    /\ body = <<>>

\* The calls of the Client, one per method and argument.
OptValues == {None} \cup {Some(v) : v \in Values}

ClientRequests ==
    {GetReq(k) : k \in Keys} \cup {DelReq(k) : k \in Keys}
    \cup {SetReq(k, v) : k \in Keys, v \in Values}
    \cup {MergeReq(k, v) : k \in Keys, v \in Values}
    \cup {CasReq(k, o, n) : k \in Keys, o \in OptValues, n \in OptValues}
    \cup {FlushReq, IterReq, MaxReq}
    \cup {ScanReq(k) : k \in Keys}
    \cup {ScanRangeReq(k, e) : k \in Keys, e \in Keys}
    \cup {PredReq(k) : k \in Keys} \cup {PredInclReq(k) : k \in Keys}
    \cup {SuccReq(k) : k \in Keys} \cup {SuccInclReq(k) : k \in Keys}

\* Requests of other HTTP clients: any method and path, any body.
RawTargets ==
    {<<Routes[i].method, Routes[i].path>> : i \in 1..Len(Routes)}
    \cup { <<"GET", "/tree/entries/nope">>, <<"POST", "/tree/entries/get">>,
           <<"GET", "/tree/entries/get/">>, <<"GET", "/tree/entries">> }

RawJson ==
    << JNull, JObj(<<>>), JArr(<<JBytes(<<1>>)>>),
       JObj(<< <<FieldName("key"), JNum(1)>> >>),
       JObj(<< <<FieldName("key"), JBytes(<<256>>)>> >>),
       JObj(<< <<FieldName("key"), JBytes(<<1>>)>> >>),
       JObj(<< <<FieldName("key"), JBytes(<<1>>)>>, <<FieldName("key"), JBytes(<<2>>)>> >>),
       JObj(<< <<FieldName("value"), JBytes(<<3>>)>>, <<FieldName("key"), JBytes(<<2>>)>> >>),
       JObj(<< <<FieldName("start"), JBytes(<<1>>)>>, <<FieldName("end"), JStr(<<"e">>)>> >>) >>

RawBodies ==
    {EncodeJson(RawJson[i]) : i \in 1..Len(RawJson)}
    \cup {Take(EncodeJson(RawJson[i]), Len(EncodeJson(RawJson[i])) - 1) : i \in 1..Len(RawJson)}
    \cup {<<>>, <<"x">>}

\* A connection with no request in progress on either side.
Quiet(c) == srv[c].pc = "idle" /\ call[c].state = "idle"

Submit(c, req) ==
    /\ srv' = [srv EXCEPT ![c] =
                [IdleServer EXCEPT !.pc = "received", !.method = req.method,
                                   !.path = req.path, !.body = req.body]]
    /\ cursor' = [cursor EXCEPT ![c] = NoCursor]
    /\ wire' = [wire EXCEPT ![c] = NoResponse]
    /\ dec' = [dec EXCEPT ![c] = NewDecoder]
    /\ UNCHANGED <<tree, owners, input, body>>

\* A Client method: request::from, then client.request.
ClientCall(c, rq) ==
    /\ Quiet(c)
    /\ Submit(c, IntoRequest(rq))
    /\ call' = [call EXCEPT ![c] = [IdleCall EXCEPT !.state = "sent", !.rq = rq]]

\* Some other client sends a request of its own making.
RawRequest(c, target, bytes) ==
    /\ Quiet(c)
    /\ Submit(c, [method |-> target[1], path |-> target[2], body |-> bytes])
    /\ call' = [call EXCEPT ![c] = [IdleCall EXCEPT !.state = "foreign"]]

\* `response` is called with a clone of the service's Arc and matches on
\* (method, path); the handler owns the clone.  No arm: unimplemented!()
\* panics, the connection's task dies and the connection is dropped.
Route(c) ==
    /\ srv[c].pc = "received"
    /\ owners # {}
    /\ LET v == RouteOf(srv[c].method, srv[c].path)
       IN  IF v = NoRoute
           THEN /\ srv' = [srv EXCEPT ![c].pc = "panicked"]
                /\ wire' = [wire EXCEPT ![c].end = "err"]
           ELSE /\ srv' = [srv EXCEPT ![c].pc = "routed", ![c].variant = v]
                /\ UNCHANGED wire
    /\ UNCHANGED <<tree, cursor, call, owners, dec, input, body>>

\* concat_and_respond: the body is whole; deserialize_and_respond runs the
\* handler.  `fail` is the failure of the store operation, if it fails.
Respond(c, fail) ==
    /\ srv[c].pc = "routed"
    /\ LET d == DecodeRequest(srv[c].variant, srv[c].body)
           r == DeserializeAndRespond(srv[c].variant, srv[c].body, tree, fail)
       IN  /\ fail # None => d.ok /\ srv[c].variant \notin StreamVariants
           /\ tree' = r.tree
           /\ srv' = [srv EXCEPT ![c].pc = IF r.stream THEN "streaming" ELSE "done",
                                 ![c].rq = IF d.ok THEN d.val ELSE NoRequest,
                                 ![c].decoded = d.ok,
                                 ![c].failed = fail]
           /\ cursor' = [cursor EXCEPT ![c] =
                            IF r.stream THEN NewIter(r.pos)
                            ELSE NoCursor]
           /\ wire' = [wire EXCEPT ![c] =
                            [head |-> TRUE, status |-> r.status, bytes |-> r.body,
                             sent |-> IF r.stream THEN <<>> ELSE <<r.body>>,
                             end |-> IF r.stream THEN "open" ELSE "eof"]]
    /\ UNCHANGED <<call, owners, dec, input, body>>

\* The response body asks its stream for the next chunk: Iter::next on the
\* wrapper, then the handler's closure.  An Err item aborts the body; None
\* ends it; the body is then dropped, and the wrapper with it (DropWrapper).
ServerPull(c, fail) ==
    /\ srv[c].pc = "streaming"
    /\ IF fail # None
       THEN /\ srv' = [srv EXCEPT ![c].pc = "dropping", ![c].failed = fail]
            /\ UNCHANGED cursor
            /\ wire' = [wire EXCEPT ![c].end = "err"]
       ELSE LET n == CursorNext(tree, cursor[c].pos)
            IN  IF n.item = None
                THEN /\ srv' = [srv EXCEPT ![c].pc = "dropping"]
                     /\ UNCHANGED cursor
                     /\ wire' = [wire EXCEPT ![c].end = "eof"]
                ELSE LET ch == EntryChunk(srv[c].rq, n.item[1])
                     IN  /\ cursor' = [cursor EXCEPT ![c].pos = n.cur,
                                            ![c].pulled = Append(@, n.item[1][1])]
                         /\ wire' = IF ch = None THEN wire
                                    ELSE [wire EXCEPT ![c].bytes = @ \o ch[1],
                                                      ![c].sent = Append(@, ch[1])]
                         /\ UNCHANGED srv
    /\ UNCHANGED <<tree, call, owners, dec, input, body>>

\* The wrapper without the first of its fields, in drop order, that it still has.
DropField(w) ==
    IF DropOrder[1] = "_tree"
    THEN IF w.held THEN [w EXCEPT !.held = FALSE] ELSE [w EXCEPT !.live = FALSE]
    ELSE IF w.live THEN [w EXCEPT !.live = FALSE] ELSE [w EXCEPT !.held = FALSE]

\* The drop glue of the wrapper, one field at a step; the response is over
\* when both are gone.
DropWrapper(c) ==
    /\ srv[c].pc = "dropping"
    /\ LET w == DropField(cursor[c])
       IN  /\ cursor' = [cursor EXCEPT ![c] = w]
           /\ srv' = [srv EXCEPT ![c].pc = IF w.held \/ w.live THEN "dropping" ELSE "done"]
    /\ UNCHANGED <<tree, wire, call, owners, dec, input, body>>

\* client.request(request) resolves with the head of the response.
ClientHead(c) ==
    /\ call[c].state = "sent"
    /\ wire[c].head
    /\ call' = [call EXCEPT ![c].state = "body", ![c].status = wire[c].status]
    /\ UNCHANGED <<tree, srv, cursor, wire, owners, dec, input, body>>

\* The sizes of the chunk a read of the connection may return.
ReadSizes(bytes) ==
    IF bytes = <<>> THEN {0}
    ELSE {n \in 1..MaxChunk : n < Len(bytes)} \cup {Len(bytes)}

\* What Body::poll returns when it reads n bytes.
BodyPoll(w, n) ==
    IF w.bytes # <<>> THEN BodyChunk(Take(w.bytes, n))
    ELSE IF w.end = "eof" THEN BodyEnd
    ELSE IF w.end = "err" THEN BodyErr
    ELSE BodyNotReady

\* The caller polls the future or stream of its call: one turn of the loop
\* of BodyToJsonChunks::poll, and the combinators on what it returns.
ClientPoll(c, n) ==
    /\ call[c].state = "body"
    /\ LET d == PollStep(dec[c], BodyPoll(wire[c], n))
       IN  /\ dec' = [dec EXCEPT ![c] = d]
           /\ call' = [call EXCEPT ![c] =
                        IF call[c].rq.variant \in StreamVariants
                        THEN StreamAndDeserialize(call[c], d)
                        ELSE ConcatAndDeserialize(call[c], d)]
    /\ wire' = [wire EXCEPT ![c].bytes = Drop(@, n)]
    /\ UNCHANGED <<tree, srv, cursor, owners, input, body>>

\* The request is over on both sides: the caller drops the future or stream
\* it has finished with, the server its finished response.
Release(c) ==
    /\ srv[c].pc \in {"done", "panicked"}
    /\ call[c].state \in {"done", "foreign"}
    /\ srv' = [srv EXCEPT ![c] = IdleServer]
    /\ cursor' = [cursor EXCEPT ![c] = NoCursor]
    /\ wire' = [wire EXCEPT ![c] = NoResponse]
    /\ call' = [call EXCEPT ![c] = IdleCall]
    /\ dec' = [dec EXCEPT ![c] = NewDecoder]
    /\ UNCHANGED <<tree, owners, input, body>>

OptErrors == {None} \cup {Some(m) : m \in StoreErrors}

Next ==
    \E c \in Conns :
        \/ \E rq \in ClientRequests : ClientCall(c, rq)
        \/ \E t \in RawTargets, b \in RawBodies : RawRequest(c, t, b)
        \/ Route(c)
        \/ \E fail \in OptErrors : Respond(c, fail)
        \/ \E fail \in OptErrors : ServerPull(c, fail)
        \/ DropWrapper(c)
        \/ ClientHead(c)
        \/ \E n \in ReadSizes(wire[c].bytes) : ClientPoll(c, n)
        \/ Release(c)

Spec == Init /\ [][Next]_vars

(***************************************************************************)
(* SpecClient: a Client call against any response a server may send.       *)
(***************************************************************************)
Statuses == {StatusOk, StatusCreated, StatusBadRequest, StatusInternalServerError}

\* The bodies of single-value responses: every success type and a message.
ServerJson ==
    << JUnit, JOptBytes(Some(<<>>)), JOptBytes(Some(<<3>>)),
       JOptEntry(Some(<< <<1>>, <<3>> >>)),
       JCasResult([ok |-> TRUE, val |-> None]),
       JCasResult([ok |-> FALSE, val |-> Some(<<3>>)]),
       JString(<<"i", "o">>) >>

\* One call of every single-value method.
SampleCalls ==
    { GetReq(<<1>>), DelReq(<<1>>), SetReq(<<1>>, <<3>>), MergeReq(<<1>>, <<3>>),
      CasReq(<<1>>, None, Some(<<3>>)), FlushReq, MaxReq, PredReq(<<1>>),
      PredInclReq(<<1>>), SuccReq(<<1>>), SuccInclReq(<<1>>) }

ClientInit ==
    /\ tree = EmptyTree
    /\ srv = [c \in Conns |-> [IdleServer EXCEPT !.pc = "done"]]
    /\ cursor = [c \in Conns |-> NoCursor]
    /\ owners = Service
    /\ \E st \in Statuses, i \in 1..Len(ServerJson) :
          wire = [c \in Conns |->
                    [head |-> TRUE, status |-> st, bytes |-> EncodeJson(ServerJson[i]),
                     sent |-> <<EncodeJson(ServerJson[i])>>, end |-> "eof"]]
    /\ \E rq \in SampleCalls :
          call = [c \in Conns |-> [IdleCall EXCEPT !.state = "sent", !.rq = rq]]
    /\ dec = [c \in Conns |-> NewDecoder]
    /\ input = NoInput
    /\ body = <<>>

ClientNext ==
    \E c \in Conns :
        \/ ClientHead(c)
        \/ \E n \in ReadSizes(wire[c].bytes) : ClientPoll(c, n)

SpecClient == ClientInit /\ [][ClientNext]_vars

(***************************************************************************)
(* SpecIter: streaming responses, their Iter wrapper and the Arc.          *)
(***************************************************************************)
\* Arc::strong_count: the service, each running handler, each wrapper.
StrongCount ==
    Cardinality(owners)
    + Cardinality({c \in Conns : srv[c].pc = "routed"})
    + Cardinality({c \in Conns : cursor[c].held})

StreamRequests == {rq \in ClientRequests : rq.variant \in StreamVariants}

\* The store before the server starts: empty, or some entries set.
SomeTree == TreeSet(TreeSet(EmptyTree, <<1>>, <<>>), <<2>>, <<3>>)
IterTrees == {EmptyTree, SomeTree, TreeSet(SomeTree, <<1, 0>>, <<3>>)}

IterInit ==
    /\ tree \in IterTrees
    /\ srv = [c \in Conns |-> IdleServer]
    /\ cursor = [c \in Conns |-> NoCursor]
    /\ wire = [c \in Conns |-> NoResponse]
    /\ call = [c \in Conns |-> IdleCall]
    /\ owners = Service
    /\ dec = [c \in Conns |-> NewDecoder]
    /\ input = NoInput
    /\ body = <<>>

\* The caller drops the stream it was given: the connection is closed.
Disconnect(c) ==
    /\ call[c].state = "body"
    /\ call[c].rq.variant \in StreamVariants
    /\ call' = [call EXCEPT ![c].state = "done", ![c].result = Outcome("dropped", <<>>)]
    /\ UNCHANGED <<tree, srv, cursor, wire, owners, dec, input, body>>

\* A server that keeps the body of a closed connection.
ServerCancelKeeps(c) ==
    /\ srv[c].pc = "streaming"
    /\ call[c].result.tag = "dropped"
    /\ srv' = [srv EXCEPT ![c].pc = "done"]
    /\ UNCHANGED <<tree, cursor, wire, call, owners, dec, input, body>>

\* The server finds the connection closed and drops the response body: the
\* stream is not polled again, the wrapper is dropped.
ServerCancel(c) ==
    /\ srv[c].pc = "streaming"
    /\ call[c].result.tag = "dropped"
    /\ srv' = [srv EXCEPT ![c].pc = "dropping"]
    /\ UNCHANGED <<tree, cursor, wire, call, owners, dec, input, body>>

\* The server shuts down: the service and its Arc are dropped; responses
\* already under way go on.
OwnerDrop ==
    /\ owners # {}
    /\ owners' = {}
    /\ UNCHANGED <<tree, srv, cursor, wire, call, dec, input, body>>

IterNext ==
    \/ OwnerDrop
    \/ \E c \in Conns :
        \/ \E rq \in StreamRequests : ClientCall(c, rq)
        \/ Route(c)
        \/ Respond(c, None)
        \/ \E fail \in OptErrors : ServerPull(c, fail)
        \/ ServerCancel(c)
        \/ DropWrapper(c)
        \/ ClientHead(c)
        \/ \E n \in ReadSizes(wire[c].bytes) : ClientPoll(c, n)
        \/ Disconnect(c)
        \/ Release(c)

SpecIter == IterInit /\ [][IterNext]_vars

(***************************************************************************)
(* SpecCodec: the requests of the Client as the server decodes them.       *)
(***************************************************************************)
\* Payloads: the empty sequence, the least and the greatest byte, two bytes.
CodecKeys == {<<>>, <<0>>, <<255>>, <<1, 0>>}
CodecValues == {<<>>, <<255, 0>>}
CodecOptValues == {None} \cup {Some(v) : v \in CodecValues}

CodecRequests ==
    {GetReq(k) : k \in CodecKeys} \cup {DelReq(k) : k \in CodecKeys}
    \cup {SetReq(k, v) : k \in CodecKeys, v \in CodecValues}
    \cup {MergeReq(k, v) : k \in CodecKeys, v \in CodecValues}
    \cup {CasReq(k, o, n) : k \in CodecKeys, o \in CodecOptValues, n \in CodecOptValues}
    \cup {FlushReq, IterReq, MaxReq}
    \cup {ScanReq(k) : k \in CodecKeys}
    \cup {ScanRangeReq(k, e) : k \in CodecKeys, e \in CodecKeys}
    \cup {PredReq(k) : k \in CodecKeys} \cup {PredInclReq(k) : k \in CodecKeys}
    \cup {SuccReq(k) : k \in CodecKeys} \cup {SuccInclReq(k) : k \in CodecKeys}

CodecNext ==
    \E c \in Conns :
        \/ \E rq \in CodecRequests : ClientCall(c, rq)
        \/ Route(c)
        \/ Respond(c, None)

SpecCodec == Init /\ [][CodecNext]_vars

(***************************************************************************)
(* SpecStore: reads and writes of single entries, the empty key included.  *)
(***************************************************************************)
StoreKeys == {<<>>, <<1>>}

StoreRequests ==
    {GetReq(k) : k \in StoreKeys} \cup {DelReq(k) : k \in StoreKeys}
    \cup {SetReq(k, v) : k \in StoreKeys, v \in Values}
    \cup {MergeReq(k, v) : k \in StoreKeys, v \in Values}
    \cup {CasReq(k, o, n) : k \in StoreKeys, o \in OptValues, n \in OptValues}

StoreNext ==
    \E c \in Conns :
        \/ \E rq \in StoreRequests : ClientCall(c, rq)
        \/ Route(c)
        \/ \E fail \in OptErrors : Respond(c, fail)
        \/ ClientHead(c)
        \/ \E n \in ReadSizes(wire[c].bytes) : ClientPoll(c, n)
        \/ Release(c)

SpecStore == Init /\ [][StoreNext]_vars

(***************************************************************************)
(* SpecSingle: a single-value call reads a response whose body may be      *)
(* empty or end before its JSON value is complete.                         *)
(***************************************************************************)
ResponseBodies ==
    {EncodeJson(ServerJson[i]) : i \in 1..Len(ServerJson)}
    \cup {Take(EncodeJson(ServerJson[i]), Len(EncodeJson(ServerJson[i])) - 1) :
            i \in 1..Len(ServerJson)}
    \cup {<<>>}

SingleInit ==
    /\ tree = EmptyTree
    /\ srv = [c \in Conns |-> [IdleServer EXCEPT !.pc = "done"]]
    /\ cursor = [c \in Conns |-> NoCursor]
    /\ owners = Service
    /\ \E st \in Statuses, b \in ResponseBodies :
          wire = [c \in Conns |->
                    [head |-> TRUE, status |-> st, bytes |-> b,
                     sent |-> <<b>>, end |-> "eof"]]
    /\ \E rq \in SampleCalls :
          call = [c \in Conns |-> [IdleCall EXCEPT !.state = "sent", !.rq = rq]]
    /\ dec = [c \in Conns |-> NewDecoder]
    /\ input = NoInput
    /\ body = <<>>

SpecSingle == SingleInit /\ [][ClientNext]_vars

(***************************************************************************)
(* SpecTransport: calls over a connection that may fail.                   *)
(***************************************************************************)
TransportCalls ==
    { GetReq(<<1>>), SetReq(<<1>>, <<3>>), MaxReq, IterReq,
      ScanReq(<<1, 0>>), ScanRangeReq(<<1>>, <<2>>) }

\* client.request(request) fails: `.map_err(Error::Hyper)`.  The request
\* may or may not have reached the server; the call is over.
RequestFails(c) ==
    /\ call[c].state = "sent"
    /\ call' = [call EXCEPT ![c].state = "done", ![c].result = Outcome("hyper", <<>>)]
    /\ UNCHANGED <<tree, srv, cursor, wire, owners, dec, input, body>>

\* The connection fails while the body is under way: the bytes after the
\* first n not yet read are lost, Body::poll will return Err, and a
\* server still streaming drops its response body.
BodyFails(c, n) ==
    /\ call[c].state = "body"
    /\ wire[c].bytes # <<>> \/ wire[c].end = "open"
    /\ n < Len(wire[c].bytes) \/ wire[c].bytes = <<>>
    /\ wire' = [wire EXCEPT ![c].bytes = Take(@, n), ![c].end = "err"]
    /\ srv' = [srv EXCEPT ![c].pc = IF @ = "streaming" THEN "dropping" ELSE @]
    /\ UNCHANGED <<tree, cursor, call, owners, dec, input, body>>

TransportNext ==
    \E c \in Conns :
        \/ \E rq \in TransportCalls : ClientCall(c, rq)
        \/ Route(c)
        \/ Respond(c, None)
        \/ ServerPull(c, None)
        \/ DropWrapper(c)
        \/ RequestFails(c)
        \/ \E n \in 0..MaxChunk : BodyFails(c, n)
        \/ ClientHead(c)
        \/ \E n \in ReadSizes(wire[c].bytes) : ClientPoll(c, n)
        \/ Release(c)

SpecTransport == IterInit /\ [][TransportNext]_vars

(***************************************************************************)
(* SpecRequest: the request body reaches the server chunk by chunk.  Until *)
(* a response is written the connection carries the request: wire[c].bytes *)
(* are the bytes of its body still under way, srv[c].body those that       *)
(* concat2 has collected.                                                  *)
(***************************************************************************)
RequestSamples == { GetReq(<<1>>), SetReq(<<1>>, <<3>>), DelReq(<<1>>), IterReq }

RequestTargets ==
    {<<IntoRequest(rq).method, IntoRequest(rq).path>> : rq \in RequestSamples}

RequestBodies ==
    {IntoRequest(rq).body : rq \in RequestSamples}
    \cup {Take(IntoRequest(rq).body, Len(IntoRequest(rq).body) - 1) : rq \in RequestSamples}
    \cup {<<>>}

\* The head of a request arrives; its body follows.
SendRequest(c, target, bytes) ==
    /\ Quiet(c)
    /\ srv' = [srv EXCEPT ![c] =
                [IdleServer EXCEPT !.pc = "received", !.method = target[1],
                                   !.path = target[2]]]
    /\ cursor' = [cursor EXCEPT ![c] = NoCursor]
    /\ wire' = [wire EXCEPT ![c] = [NoResponse EXCEPT !.bytes = bytes]]
    /\ call' = [call EXCEPT ![c] = [IdleCall EXCEPT !.state = "foreign"]]
    /\ dec' = [dec EXCEPT ![c] = NewDecoder]
    /\ UNCHANGED <<tree, owners, input, body>>

\* concat2 polls the request body and appends the chunk it gets.
Receive(c, n) ==
    /\ srv[c].pc \in {"received", "routed"}
    /\ ~wire[c].head
    /\ n \in 1..Len(wire[c].bytes)
    /\ srv' = [srv EXCEPT ![c].body = @ \o Take(wire[c].bytes, n)]
    /\ wire' = [wire EXCEPT ![c].bytes = Drop(@, n)]
    /\ UNCHANGED <<tree, cursor, call, owners, dec, input, body>>

\* The request body fails before its end: concat2 resolves to the error,
\* `and_then` does not run its closure, the connection is closed.
RequestAbort(c) ==
    /\ srv[c].pc \in {"received", "routed"}
    /\ ~wire[c].head
    /\ wire[c].bytes # <<>>
    /\ srv' = [srv EXCEPT ![c] = IdleServer]
    /\ wire' = [wire EXCEPT ![c] = NoResponse]
    /\ call' = [call EXCEPT ![c] = IdleCall]
    /\ UNCHANGED <<tree, cursor, owners, dec, input, body>>

\* A server that answers from the chunks it has, whole body or not.
RespondToChunks(c, fail) == Respond(c, fail)

\* concat_and_respond: `request.into_body().concat2().and_then(..)`: the
\* closure runs when the body has ended.
ConcatAndRespond(c, fail) ==
    /\ wire[c].bytes = <<>>
    /\ Respond(c, fail)

RequestNext ==
    \E c \in Conns :
        \/ \E t \in RequestTargets, b \in RequestBodies : SendRequest(c, t, b)
        \/ \E n \in {1, MaxChunk, Len(wire[c].bytes)} : Receive(c, n)
        \/ RequestAbort(c)
        \/ Route(c)
        \/ \E fail \in OptErrors : ConcatAndRespond(c, fail)
        \/ ServerPull(c, None)
        \/ DropWrapper(c)
        \/ Release(c)

SpecRequest == Init /\ [][RequestNext]_vars

(***************************************************************************)
(* SpecStreams: two connections stream from the one store at once.  Every  *)
(* request is served by its own call of `response` with a clone of the     *)
(* Arc; the tasks interleave.                                              *)
(***************************************************************************)
Streams == {"c1", "c2"}

StreamSamples == { IterReq, ScanReq(<<1, 0>>), ScanRangeReq(<<1>>, <<2>>) }

StreamsInit ==
    /\ tree \in IterTrees
    /\ srv = [c \in Streams |-> IdleServer]
    /\ cursor = [c \in Streams |-> NoCursor]
    /\ wire = [c \in Streams |-> NoResponse]
    /\ call = [c \in Streams |-> IdleCall]
    /\ owners = Service
    /\ dec = [c \in Streams |-> NewDecoder]
    /\ input = NoInput
    /\ body = <<>>

StreamsNext ==
    \E c \in Streams :
        \/ \E rq \in StreamSamples :
              RawRequest(c, <<IntoRequest(rq).method, IntoRequest(rq).path>>,
                         IntoRequest(rq).body)
        \/ Route(c)
        \/ Respond(c, None)
        \/ ServerPull(c, None)
        \/ DropWrapper(c)
        \/ Release(c)

SpecStreams == StreamsInit /\ [][StreamsNext]_vars

(***************************************************************************)
(* Properties of the server and of a call.                                 *)
(***************************************************************************)
\* The whole body the server wrote, as JSON (when it is one JSON value).
SentBytes(c) == Flatten(wire[c].sent)
SentJson(c) == FromSlice(SentBytes(c))

\* The entries of a set of keys, in ascending key order.
RECURSIVE Ascending(_, _)
Ascending(t, S) ==
    IF S = {} THEN <<>>
    ELSE LET k == CHOOSE x \in S : \A y \in S : ~KeyLess(y, x)
         IN  <<(<<k, t[k]>>)>> \o Ascending(t, S \ {k})

\* The entries a streaming request is to deliver from tree t.
Expected(t, rq) ==
    CASE rq.variant = "Iter" -> Ascending(t, DOMAIN t)
      [] rq.variant = "Scan" ->
            Ascending(t, {k \in DOMAIN t : ~KeyLess(k, rq.key)})
      [] rq.variant = "ScanRange" ->
            Ascending(t, {k \in DOMAIN t : ~KeyLess(k, rq.start) /\ KeyLess(k, rq.end)})

\* C4: a request that matches no route gets a response with a status; the
\* server does not panic.
UnroutedGetsAResponse ==
    \A c \in Conns :
        (srv[c].pc \notin {"idle", "received"}
            /\ RouteOf(srv[c].method, srv[c].path) = NoRoute)
        => (srv[c].pc # "panicked" /\ wire[c].head /\ wire[c].status \in Statuses)

\* C5: a streaming call ends normally only when the server produced every
\* entry of the scan and the client emitted all of them; a store failure or
\* bytes left in the decoder's buffer end it with an error.
StreamEndsOnlyWhenComplete ==
    \A c \in Conns :
        (call[c].rq.variant \in StreamVariants /\ call[c].result.tag = "end")
        => /\ srv[c].failed = None
           /\ dec[c].buffer = <<>>
           /\ call[c].items = Expected(tree, call[c].rq)

\* C6: a routed request whose body does not decode into the variant's shape
\* is answered 400 with a JSON string; never 500, never a panic.
BadBodyIs400 ==
    \A c \in Conns :
        (srv[c].pc \in {"streaming", "done", "panicked"}
            /\ srv[c].variant # NoRoute
            /\ ~DecodeRequest(srv[c].variant, srv[c].body).ok)
        => /\ srv[c].pc = "done"
           /\ wire[c].head /\ wire[c].status = StatusBadRequest /\ wire[c].end = "eof"
           /\ SentJson(c).st = "ok" /\ Kind(SentJson(c).v) = "str"

BadBodyWitness ==
    \E c \in Conns :
        /\ srv[c].pc = "done" /\ srv[c].variant = "Set" /\ srv[c].body = <<"x">>
        /\ wire[c].status = StatusBadRequest

\* C7: a store failure in a single-value request is answered 500 with the
\* store's message as a JSON string, and the call ends with Error::Server
\* of that message: no SerdeJson, no Hyper, no Ok.
StoreFailureIsServerError ==
    \A c \in Conns :
        (srv[c].failed # None /\ srv[c].rq.variant \notin StreamVariants)
        => /\ wire[c].status = StatusInternalServerError
           /\ wire[c].sent = <<EncodeJson(JStr(srv[c].failed[1]))>>
           /\ call[c].result.tag \in {"pending", "server"}
           /\ call[c].state = "done" =>
                call[c].result = Outcome("server", srv[c].failed[1])

StoreFailureWitness ==
    \E c \in Conns :
        /\ srv[c].failed # None /\ srv[c].rq.variant = "Cas"
        /\ call[c].state = "done" /\ call[c].result.tag = "server"

\* C8: in a single-value call an error status (400 or 500) surfaces the
\* body's message as a server error, a success status the typed result.
ErrorStatusIsServerError ==
    \A c \in Conns :
        (call[c].state = "done" /\ SentJson(c).st = "ok")
        => LET v == SentJson(c).v
               type == ResultType(call[c].rq.variant)
           IN  /\ (call[c].status \in {StatusBadRequest, StatusInternalServerError}
                      /\ Kind(v) = "str")
                    => call[c].result = Outcome("server", v[2])
               /\ (call[c].status \in {StatusOk, StatusCreated} /\ FromValue(type, v).ok)
                    => call[c].result = Outcome("ok", FromValue(type, v).val)

\* C9: a finished ScanRange response is exactly the entries with
\* start <= key < end, each once, ascending; empty when start >= end.
ScanRangeIsHalfOpen ==
    \A c \in Conns :
        (srv[c].rq.variant = "ScanRange" /\ srv[c].pc = "done" /\ wire[c].end = "eof")
        => LET want == Expected(tree, srv[c].rq)
           IN  /\ wire[c].sent = [i \in 1..Len(want) |-> EncodeJson(JEntry(want[i]))]
               /\ ~KeyLess(srv[c].rq.start, srv[c].rq.end) => wire[c].sent = <<>>

ScanRangeWitness ==
    \E c \in Conns :
        /\ srv[c].rq.variant = "ScanRange" /\ srv[c].pc = "done" /\ wire[c].end = "eof"
        /\ srv[c].rq.start \in DOMAIN tree /\ srv[c].rq.end \in DOMAIN tree
        /\ Len(wire[c].sent) = 2
        /\ wire[c].sent[1] = EncodeJson(JEntry(<<srv[c].rq.start, tree[srv[c].rq.start]>>))

\* C10: serving ScanRange, no entry is pulled from the iterator after one
\* with key >= end: at most the entries of the range plus one are pulled.
ScanRangeStopsAtEnd ==
    \A c \in Conns :
        srv[c].rq.variant = "ScanRange"
        => /\ \A i \in 1..(Len(cursor[c].pulled) - 1) :
                    KeyLess(cursor[c].pulled[i], srv[c].rq.end)
           /\ Len(cursor[c].pulled) <= Len(wire[c].sent) + 1

\* The entry of t with the least key in S, None when S is empty.
LeastEntry(t, S) ==
    IF S = {} THEN None
    ELSE LET k == CHOOSE x \in S : \A y \in S : ~KeyLess(y, x)
         IN  Some(<<k, t[k]>>)

\* A single-value request the handler served without a store failure.
Served(c, variant) ==
    /\ srv[c].pc = "done" /\ srv[c].decoded /\ srv[c].failed = None
    /\ srv[c].rq.variant = variant

\* C11: Succ(key) answers the entry with the least key > key, never the
\* entry at key; SuccIncl(key) the entry with the least key >= key; None
\* exactly when there is no such entry.
SuccIsLeastAbove ==
    \A c \in Conns :
        LET key == srv[c].rq.key
            above == {k \in DOMAIN tree : KeyLess(key, k)}
            from == {k \in DOMAIN tree : ~KeyLess(k, key)}
        IN  /\ Served(c, "Succ") =>
                /\ wire[c].sent = <<EncodeJson(JOptEntry(LeastEntry(tree, above)))>>
                /\ call[c].state = "done" =>
                        /\ call[c].result = Outcome("ok", LeastEntry(tree, above))
                        /\ call[c].result.val # None => call[c].result.val[1][1] # key
                        /\ (call[c].result.val = None) = (above = {})
            /\ Served(c, "SuccIncl") =>
                /\ wire[c].sent = <<EncodeJson(JOptEntry(LeastEntry(tree, from)))>>
                /\ call[c].state = "done" =>
                        /\ call[c].result = Outcome("ok", LeastEntry(tree, from))
                        /\ (call[c].result.val = None) = (from = {})

SuccWitness ==
    \E c \in Conns :
        /\ Served(c, "Succ") /\ call[c].state = "done"
        /\ srv[c].rq.key \in DOMAIN tree
        /\ call[c].result = Outcome("ok", Some(<<Append(srv[c].rq.key, 0), <<3>> >>))

\* C12: while a streaming response has entries to produce, the strong count
\* of the Arc is at least 1 because its wrapper holds a reference, also
\* when nobody else does.
StreamHoldsTheStore ==
    \A c \in Conns :
        srv[c].pc = "streaming"
        => /\ cursor[c].live /\ cursor[c].held
           /\ StrongCount >= 1

StreamHoldsWitness ==
    \E c \in Conns :
        /\ srv[c].pc = "streaming" /\ owners = {}
        /\ Ahead(tree, cursor[c].pos) # {} /\ cursor[c].pulled # <<>>
        /\ StrongCount = 1

\* C13: no state has a live cursor and a destroyed store: the wrapper's
\* sled::Iter is gone before, or with, the last reference to the Tree.
CursorNeverOutlivesStore ==
    \A c \in Conns : cursor[c].live => StrongCount >= 1

\* C14: when a streaming response has ended, by exhaustion, store error or
\* disconnection, its wrapper is dropped and the strong count is what it
\* was before the request: the references of the other owners alone.
StreamEndReleases ==
    /\ (\A c \in Conns : Quiet(c)) => StrongCount = Cardinality(owners)
    /\ \A c \in Conns :
        (srv[c].pc = "done" /\ srv[c].rq.variant \in StreamVariants)
        => /\ ~cursor[c].live /\ ~cursor[c].held
           /\ StrongCount = Cardinality(owners)
           /\ owners = Service => StrongCount = Cardinality(Service)

StreamEndWitness ==
    \E c \in Conns :
        /\ srv[c].pc = "done" /\ srv[c].rq.variant = "Iter"
        /\ call[c].result.tag = "dropped" /\ Len(call[c].items) = 1
        /\ Len(cursor[c].pulled) = 1 /\ Ahead(tree, cursor[c].pos) # {}
        /\ owners = Service /\ StrongCount = 1

\* C15: no two variants share a (method, path); a request is dispatched to
\* the handler of the variant whose method and path both equal its own, and
\* to none when there is no such variant.
RoutingIsExact ==
    /\ \A i, j \in 1..Len(Routes) :
          (Routes[i].method = Routes[j].method /\ Routes[i].path = Routes[j].path)
          => i = j
    /\ \A c \in Conns :
          srv[c].pc \notin {"idle", "received"}
          => LET same == {v \in Variants : RouteFor(v).method = srv[c].method
                                           /\ RouteFor(v).path = srv[c].path}
             IN  /\ same = {} => (srv[c].variant = NoRoute /\ srv[c].pc = "panicked")
                 /\ same # {} => same = {srv[c].variant}
                 /\ srv[c].decoded => srv[c].rq.variant = srv[c].variant
                 /\ call[c].state # "foreign" => srv[c].variant = call[c].rq.variant

RoutingWitness ==
    \E c \in Conns :
        /\ srv[c].pc = "done" /\ srv[c].decoded
        /\ srv[c].path = "/tree/entries/scan_range"
        /\ srv[c].variant = "ScanRange" /\ call[c].rq.variant = "ScanRange"

\* C16: the server decodes the (method, path, body) the client encoded for
\* a request into the same variant with the same payload, empty keys and
\* values included.
RequestRoundTrip ==
    \A c \in Conns :
        (call[c].state \notin {"idle", "foreign"}
            /\ srv[c].pc \in {"streaming", "dropping", "done", "panicked"})
        => /\ srv[c].variant = call[c].rq.variant
           /\ srv[c].decoded
           /\ srv[c].rq = call[c].rq
           /\ DecodeRequest(RouteOf(IntoRequest(call[c].rq).method,
                                    IntoRequest(call[c].rq).path),
                            IntoRequest(call[c].rq).body) = Conv(call[c].rq)

RoundTripWitness ==
    \E c \in Conns :
        /\ srv[c].pc = "done" /\ srv[c].decoded
        /\ call[c].rq = CasReq(<<>>, Some(<<>>), Some(<<255, 0>>))
        /\ srv[c].rq = call[c].rq

\* The variants that change the value stored at their key.
Writers == {"Set", "Del", "Cas", "Merge"}

\* C17: once Set(k, v) has been answered with success the store holds v at
\* k; the value at k changes only by a Set, Del, Cas or Merge on k; and
\* Get(k) answers the value the store holds at k, byte for byte.
SetThenGet ==
    /\ [](\A c \in Conns :
            Served(c, "Set")
            => /\ wire[c].status = StatusCreated
               /\ TreeGet(tree, srv[c].rq.key) = Some(srv[c].rq.value))
    /\ [][\A k \in (DOMAIN tree) \cup (DOMAIN tree') :
            TreeGet(tree', k) # TreeGet(tree, k)
            => \E c \in Conns :
                  /\ srv[c].pc = "routed" /\ srv'[c].pc = "done"
                  /\ srv'[c].decoded /\ srv'[c].failed = None
                  /\ srv'[c].rq.variant \in Writers /\ srv'[c].rq.key = k]_vars
    /\ [](\A c \in Conns :
            Served(c, "Get")
            => /\ wire[c].sent = <<EncodeJson(JOptBytes(TreeGet(tree, srv[c].rq.key)))>>
               /\ call[c].state = "done"
                    => call[c].result = Outcome("ok", TreeGet(tree, srv[c].rq.key)))

SetThenGetWitness ==
    \E c \in Conns :
        /\ Served(c, "Get") /\ call[c].state = "done"
        /\ srv[c].rq.key = <<>>
        /\ call[c].result = Outcome("ok", Some(<<>>))

\* C18: Get of a key the store does not hold is answered 200 with the body
\* `null` (None), and the call completes with Ok(None), no error.
AbsentGetIsNone ==
    \A c \in Conns :
        (Served(c, "Get") /\ srv[c].rq.key \notin DOMAIN tree)
        => /\ wire[c].status = StatusOk
           /\ wire[c].sent = << <<"n", "u", "l", "l">> >>
           /\ call[c].result.tag \in {"pending", "ok"}
           /\ call[c].state = "done" => call[c].result = Outcome("ok", None)

AbsentGetWitness ==
    \E c \in Conns :
        /\ Served(c, "Get") /\ tree = EmptyTree
        /\ call[c].state = "done" /\ call[c].result = Outcome("ok", None)

\* The bodies of a Cas response: Ok(()) and Err(current).
CasOkBody == EncodeJson(JObj(<< <<(<<"O", "k">>), JNull>> >>))
CasErrBody(cur) ==
    EncodeJson(JObj(<< <<(<<"E", "r", "r">>),
                         IF cur = None THEN JNull ELSE JBytes(cur[1])>> >>))

\* C19: a Cas whose comparison fails is answered 200 with Err(current
\* value) and changes nothing, a Cas that succeeds 200 with Ok(()), any
\* other store failure 500; the call returns Ok(Err(current)), Ok(Ok(()))
\* and Err(Error::Server) respectively.
CasAnswers ==
    /\ [][\A c \in Conns :
            (srv[c].pc = "routed" /\ srv'[c].pc = "done" /\ srv'[c].decoded
                /\ srv'[c].rq.variant = "Cas")
            => LET rq == srv'[c].rq
                   cur == TreeGet(tree, rq.key)
               IN  IF srv'[c].failed # None
                   THEN /\ wire'[c].status = StatusInternalServerError
                        /\ tree' = tree
                   ELSE IF cur = rq.old
                   THEN /\ wire'[c].status = StatusOk
                        /\ wire'[c].sent = <<CasOkBody>>
                        /\ TreeGet(tree', rq.key) = rq.new
                   ELSE /\ wire'[c].status = StatusOk
                        /\ wire'[c].sent = <<CasErrBody(cur)>>
                        /\ tree' = tree]_vars
    /\ [](\A c \in Conns :
            (srv[c].pc = "done" /\ srv[c].decoded /\ srv[c].rq.variant = "Cas"
                /\ call[c].state = "done")
            => IF srv[c].failed # None
               THEN call[c].result = Outcome("server", srv[c].failed[1])
               ELSE IF wire[c].sent = <<CasOkBody>>
               THEN call[c].result = Outcome("ok", [ok |-> TRUE, val |-> None])
               ELSE /\ wire[c].sent = <<CasErrBody(TreeGet(tree, srv[c].rq.key))>>
                    /\ call[c].result =
                         Outcome("ok", [ok |-> FALSE, val |-> TreeGet(tree, srv[c].rq.key)]))

CasWitness ==
    \E c \in Conns :
        /\ Served(c, "Cas") /\ call[c].state = "done"
        /\ srv[c].rq.old = Some(<<>>)
        /\ call[c].result = Outcome("ok", [ok |-> FALSE, val |-> Some(<<3>>)])

MergeIsOk ==
    \A c \in Conns :
        Served(c, "Merge")
        => /\ wire[c].status = StatusOk
           /\ wire[c].sent = <<EncodeJson(JUnit)>>

\* C22: Del(k) is answered 200 with the value that was stored at k, None
\* if there was none, and removes it; the value at k then changes only by
\* a write on k, and Get(k) answers what the store holds: None.
DelThenGet ==
    /\ [][\A c \in Conns :
            (srv[c].pc = "routed" /\ srv'[c].pc = "done" /\ srv'[c].decoded
                /\ srv'[c].failed = None /\ srv'[c].rq.variant = "Del")
            => /\ wire'[c].status = StatusOk
               /\ wire'[c].sent = <<EncodeJson(JOptBytes(TreeGet(tree, srv'[c].rq.key)))>>
               /\ TreeGet(tree', srv'[c].rq.key) = None
               /\ \A k \in DOMAIN tree : k # srv'[c].rq.key => TreeGet(tree', k) = TreeGet(tree, k)]_vars
    /\ [](\A c \in Conns :
            (Served(c, "Del") /\ call[c].state = "done")
            => /\ call[c].result.tag = "ok"
               /\ wire[c].sent = <<EncodeJson(JOptBytes(call[c].result.val))>>
               /\ srv[c].rq.key \notin DOMAIN tree)
    /\ [][\A k \in (DOMAIN tree') \ (DOMAIN tree) :
            \E c \in Conns :
                /\ srv[c].pc = "routed" /\ srv'[c].pc = "done"
                /\ srv'[c].rq.variant \in Writers \ {"Del"} /\ srv'[c].rq.key = k]_vars
    /\ [](\A c \in Conns :
            (Served(c, "Get") /\ srv[c].rq.key \notin DOMAIN tree /\ call[c].state = "done")
            => call[c].result = Outcome("ok", None))

DelWitness ==
    \E c \in Conns :
        /\ Served(c, "Del") /\ call[c].state = "done"
        /\ call[c].result = Outcome("ok", Some(<<3>>))
        /\ srv[c].rq.key = <<>> /\ TreeGet(tree, <<>>) = None

\* a is b with some of its elements left out, the order kept.
RECURSIVE IsSubseq(_, _)
IsSubseq(a, b) ==
    IF a = <<>> THEN TRUE
    ELSE IF b = <<>> THEN FALSE
    ELSE IF Head(a) = Head(b) THEN IsSubseq(Tail(a), Tail(b))
    ELSE IsSubseq(a, Tail(b))

\* The bytes of the body decoder d has been given so far.
Consumed(d) == Take(input.bytes, Len(input.bytes) - Len(Flatten(body[d])))

\* C23: values are emitted in the order of their bytes in the body, none
\* twice: whatever the chunking, the bytes read so far are the bytes of the
\* emitted values, one after the other in emission order, then the buffer.
EmittedInBodyOrder ==
    \A d \in Decoders :
        /\ Flatten([i \in 1..Len(dec[d].emitted) |-> EncodeJson(dec[d].emitted[i])])
              \o dec[d].buffer = Consumed(d)
        /\ input.valid => IsSubseq(dec[d].emitted, input.values)

EmittedInOrderWitness ==
    /\ input.valid /\ Len(input.values) = 2 /\ input.values[1] # input.values[2]
    /\ dec[2].emitted = input.values
    /\ Len(EncodeJson(input.values[2])) > 2

\* C24: a call whose request failed to be submitted, or whose response
\* body failed while being read, ends with Error::Hyper, not with a value,
\* a SerdeJson or Server error or a normal end; and no request reaches the
\* server except by a new call: nothing is resubmitted.
TransportFailureIsHyper ==
    /\ [](\A c \in Conns :
            call[c].state = "done"
            => /\ call[c].status = 0 => call[c].result.tag = "hyper"
               /\ wire[c].end = "err" => call[c].result.tag = "hyper")
    /\ [][\A c \in Conns :
            (srv'[c].pc = "received" /\ srv[c].pc # "received")
            => (call[c].state = "idle" /\ call'[c].state = "sent")]_vars

TransportFailureWitness ==
    \E c \in Conns :
        /\ call[c].state = "done" /\ call[c].rq.variant = "Iter"
        /\ wire[c].end = "err" /\ srv[c].failed = None
        /\ Len(call[c].items) = 1 /\ dec[c].buffer # <<>>
        /\ call[c].result.tag = "hyper"

\* C25: the store is invoked only by the step that answers a request, once
\* per request, when the whole body has been collected and decodes as the
\* request of the route; a request answered 400 invokes nothing and leaves
\* the store as it was.
StoreInvokedOnceDecoded ==
    [][\A c \in Conns :
        LET d == DecodeRequest(RouteOf(srv[c].method, srv[c].path), srv[c].body)
            invoked == tree' # tree \/ (cursor'[c].live /\ ~cursor[c].live)
            answered == wire'[c].head /\ ~wire[c].head
        IN  /\ answered => /\ srv[c].pc = "routed"
                           /\ wire[c].bytes = <<>>
                           /\ srv'[c].body = srv[c].body
                           /\ srv'[c].decoded = d.ok
                           /\ wire'[c].status = StatusBadRequest <=> ~d.ok
            /\ invoked => /\ answered
                          /\ d.ok
                          /\ srv'[c].rq = d.val
                          /\ d.val.variant = RouteOf(srv[c].method, srv[c].path)
            /\ (answered /\ wire'[c].status = StatusBadRequest)
                  => tree' = tree /\ cursor'[c] = NoCursor
            /\ srv'[c].pc = "routed" => srv[c].pc \in {"received", "routed"}
            /\ srv'[c].pc = "received" => srv[c].pc \in {"idle", "received"}]_vars

StoreInvokedWitness ==
    \E c \in Conns :
        /\ srv[c].pc = "done" /\ wire[c].status = StatusBadRequest
        /\ srv[c].variant = "Set" /\ Len(srv[c].body) > MaxChunk
        /\ TreeGet(tree, <<1>>) = Some(<<3>>)

\* C26: a single-value call never reaches the `unreachable!()` of
\* concat_and_deserialize: whatever the body of the response, empty or
\* never a complete JSON value, and however it is chunked, the call ends
\* with Ok(value) or Err(error), having decoded one value.
UnreachableIsNeverReached ==
    \A c \in Conns :
        call[c].state = "done"
        => /\ call[c].result.tag # "panic"
           /\ Len(dec[c].emitted) = 1

\* C27: the iterator of a streaming response is advanced only by the body
\* being asked for its next chunk, one entry at a time and none when the
\* response is built; for Iter and Scan every entry pulled is one chunk
\* produced; once the body has been dropped (here: because the caller went
\* away) the iterator is not advanced again.
PulledOnDemand ==
    /\ [](\A c \in Conns :
            (srv[c].decoded /\ srv[c].rq.variant \in {"Iter", "Scan"})
            => Len(cursor[c].pulled) = Len(wire[c].sent))
    /\ [][\A c \in Conns :
            /\ (srv[c].pc = "routed" /\ srv'[c].pc = "streaming")
                  => cursor'[c].pulled = <<>> /\ wire'[c].sent = <<>>
            /\ (cursor'[c].pulled # cursor[c].pulled /\ cursor'[c].pulled # <<>>)
                  => /\ srv[c].pc = "streaming"
                     /\ Len(cursor'[c].pulled) = Len(cursor[c].pulled) + 1
                     /\ Len(wire'[c].sent) <= Len(wire[c].sent) + 1
            /\ srv[c].pc \in {"dropping", "done"}
                  => \/ cursor'[c].pulled = cursor[c].pulled /\ cursor'[c].pos = cursor[c].pos
                     \/ srv'[c].pc \in {"idle", "received"}]_vars

PulledOnDemandWitness ==
    \E c \in Conns :
        /\ srv[c].pc = "dropping" /\ srv[c].rq.variant = "Scan"
        /\ call[c].result.tag = "dropped"
        /\ Len(cursor[c].pulled) = 1 /\ Len(wire[c].sent) = 1
        /\ Ahead(tree, cursor[c].pos) # {}

\* The entries of connection c's response that its closure let through, in
\* the order the iterator yielded them.
Produced(c) ==
    LET keep(k) == srv[c].rq.variant = "ScanRange" => KeyLess(k, srv[c].rq.end)
        keys == SelectSeq(cursor[c].pulled, keep)
    IN  [i \in 1..Len(keys) |-> <<keys[i], TreeGet(tree, keys[i])[1]>>]

\* C28: the body of an Iter, Scan or ScanRange response is one chunk per
\* entry produced, each the JSON encoding of its entry, in the order the
\* iterator yielded them, and no byte besides; after a store error no
\* chunk follows.
StreamBodyIsTheEntries ==
    /\ [](\A c \in Conns :
            (srv[c].decoded /\ srv[c].rq.variant \in StreamVariants)
            => /\ wire[c].sent = [i \in 1..Len(Produced(c)) |->
                                    EncodeJson(JEntry(Produced(c)[i]))]
               /\ \E n \in 0..Len(Flatten(wire[c].sent)) :
                     wire[c].bytes = Drop(Flatten(wire[c].sent), n)
               /\ srv[c].failed # None => wire[c].end = "err")
    /\ [][\A c \in Conns :
            (srv[c].failed # None /\ srv'[c].pc \notin {"idle", "received"})
            => wire'[c].sent = wire[c].sent /\ wire'[c].end = "err"]_vars

StreamBodyWitness ==
    \E c \in Conns :
        /\ srv[c].pc = "done" /\ srv[c].rq.variant = "Scan"
        /\ srv[c].failed # None /\ Len(wire[c].sent) = 2
        /\ Ahead(tree, cursor[c].pos) # {}

\* The key a streaming request starts from, and the keys an iteration of
\* its own yields from there.
StartOf(rq) ==
    CASE rq.variant = "Iter" -> <<>>
      [] rq.variant = "Scan" -> rq.key
      [] rq.variant = "ScanRange" -> rq.start

OwnRun(rq) ==
    LET es == Ascending(tree, {k \in DOMAIN tree : ~KeyLess(k, StartOf(rq))})
    IN  [i \in 1..Len(es) |-> es[i][1]]

\* C29: every streaming request has a cursor of its own: whatever the
\* interleaving of concurrent Iter, Scan and ScanRange responses, each has
\* pulled exactly the first entries of its own iteration and stands right
\* behind them, and a step that moves one cursor leaves the others alone.
CursorsAreSeparate ==
    /\ [](\A c \in Streams :
            (srv[c].decoded /\ srv[c].pc \in {"streaming", "dropping", "done"})
            => /\ Len(cursor[c].pulled) <= Len(OwnRun(srv[c].rq))
               /\ cursor[c].pulled = Take(OwnRun(srv[c].rq), Len(cursor[c].pulled))
               /\ cursor[c].pos =
                     IF cursor[c].pulled = <<>> THEN NewCursor(StartOf(srv[c].rq))
                     ELSE [lo |-> cursor[c].pulled[Len(cursor[c].pulled)], incl |-> FALSE])
    /\ [][\A c, d \in Streams :
            (c # d /\ cursor'[c] # cursor[c])
            => cursor'[d] = cursor[d] /\ wire'[d] = wire[d] /\ srv'[d] = srv[d]]_vars

CursorsWitness ==
    /\ srv["c1"].pc = "streaming" /\ srv["c2"].pc = "streaming"
    /\ srv["c1"].rq.variant = "Iter" /\ srv["c2"].rq.variant = "Scan"
    /\ Len(cursor["c1"].pulled) = 1 /\ Len(cursor["c2"].pulled) = 2
    /\ KeyLess(cursor["c1"].pos.lo, cursor["c2"].pos.lo)

\* The bytes decoder d has been given since the emission before its last.
SinceEmission(d) ==
    LET n == Len(dec[d].emitted)
        before == Flatten([i \in 1..(n - 1) |-> EncodeJson(dec[d].emitted[i])])
    IN  Drop(Consumed(d), Len(before))

\* C30: a value the decoder emits is the parse of all the bytes received
\* since the emission before it (or the start of the body), taken as one
\* JSON value; the buffer is empty right after an emission; and a poll
\* whose buffer does not parse as one whole value emits nothing.
EmissionIsWholeBuffer ==
    /\ [](\A d \in Decoders :
            dec[d].ret = "item"
            => /\ dec[d].buffer = <<>>
               /\ FromSlice(SinceEmission(d)).st = "ok"
               /\ FromSlice(SinceEmission(d)).v = dec[d].emitted[Len(dec[d].emitted)])
    /\ [][\A d \in Decoders :
            (dec'[d] # dec[d] /\ body[d] # <<>>)
            => LET buf == dec[d].buffer \o Head(body[d])
               IN  IF FromSlice(buf).st = "ok"
                   THEN /\ dec'[d].ret = "item" /\ dec'[d].buffer = <<>>
                        /\ dec'[d].emitted = Append(dec[d].emitted, FromSlice(buf).v)
                   ELSE /\ dec'[d].ret = "continue" /\ dec'[d].buffer = buf
                        /\ dec'[d].emitted = dec[d].emitted]_vars

EmissionWitness ==
    /\ input.valid /\ Len(input.values) = 2
    /\ dec[1].ret = "item" /\ Len(dec[1].emitted) = 2
    /\ Len(EncodeJson(input.values[2])) > MaxChunk
    /\ SinceEmission(1) = EncodeJson(input.values[2])

\* The requests that only read.
Readers ==
    {"Get", "Iter", "Scan", "ScanRange", "Max", "Pred", "PredIncl", "Succ", "SuccIncl"}

\* C31: serving Get, Iter, Scan, ScanRange, Max, Pred, PredIncl, Succ or
\* SuccIncl leaves the store as it was, whether it succeeds, fails or its
\* body is refused, and so does every pull and the teardown of a stream;
\* the key Succ extends by a 0 byte is looked up, never stored.
ReadsLeaveTheStore ==
    [][\A c \in Conns :
        /\ (srv[c].pc = "routed" /\ srv[c].variant \in Readers) => tree' = tree
        /\ srv[c].pc \in {"streaming", "dropping"} => tree' = tree
        /\ tree' # tree => /\ srv[c].pc = "routed" /\ srv[c].variant \in Writers
                           /\ srv'[c].decoded /\ srv'[c].failed = None]_vars

ReadsWitness ==
    \E c \in Conns :
        /\ Served(c, "Succ") /\ srv[c].rq.key = <<1>>
        /\ DOMAIN tree = {<<1>>}
        /\ wire[c].sent = <<EncodeJson(JOptEntry(None))>>

\* C32: on a finite body that ends without a transport error the decoder
\* comes to report the end of the stream; it reports it only when the body
\* has reported its own end; and it returns NotReady only from a poll in
\* which the body returned NotReady, having consumed nothing.
PollTerminates ==
    /\ <>(\A d \in Decoders : dec[d].ret = "none")
    /\ [](\A d \in Decoders : dec[d].ret = "none" => body[d] = <<>>)
    /\ [][\A d \in Decoders :
            /\ (dec'[d].ret = "none" /\ dec[d].ret # "none") => body[d] = <<>>
            /\ (dec'[d].ret = "notready" /\ dec[d].ret # "notready")
                  => /\ body'[d] = body[d]
                     /\ dec'[d].buffer = dec[d].buffer
                     /\ dec'[d].emitted = dec[d].emitted
            /\ (body'[d] # body[d] /\ FromSlice(dec[d].buffer \o Head(body[d])).st # "ok")
                  => dec'[d].ret = "continue"]_vars

PollTerminatesWitness ==
    /\ dec[1].ret = "none" /\ dec[1].emitted # <<>>
    /\ dec[2].ret = "notready" /\ dec[2].buffer # <<>> /\ dec[2].emitted # <<>>

====
